---- MODULE Spec2Model ----
(***************************************************************************)
(* smugdancer: the cache service (src/src/cache_service.rs) in front of    *)
(* the render service (src/src/render_service.rs).                         *)
(*                                                                         *)
(* A cache request (GifService::handle_request_inner) runs as its own      *)
(* task; the render service is a coordinator task (select over the request *)
(* and completion channels), a dispatcher task and one render task per     *)
(* dispatched speed.  Every await point of the code separates two actions. *)
(***************************************************************************)
EXTENDS Integers, Sequences, FiniteSets, TLC

\* ------------------------------------------------------------- bounds
NumReqs == 3        \* cache requests issued over a behaviour
MaxActive == 2      \* cache requests in flight at a time
NumKeys == 2        \* distinct speed keys requested
NumGifs == 2        \* distinct outputs the encoder (a black box) can produce
MinBpm == 60        \* the BPMs asked for: the integers MinBpm..MaxBpm
MaxBpm == 180
MaxApply == 2       \* quantizations applied to one BPM
MaxWrap == 2        \* deepest nesting of RenderFailed in an error value
NumIps == 1         \* client addresses
NumFiles == 3       \* cache files the directory can hold (those of the keys first)
MaxFrames == 4      \* largest frame count of an animation
MaxNum == 4         \* largest numerator of a requested speed
MaxDen == 2         \* largest denominator of a requested speed
MaxTime == 2        \* epoch seconds the clock runs through

\* ------------------------------------------------------------- configuration
MaxJobs == 1        \* RenderServiceConfig::max_jobs
RequestsCap == 32   \* mpsc::channel(32), requests
RendersCap == 32    \* mpsc::channel(32), renders
CompletedCap == 8   \* mpsc::channel(8), completed renders

Reqs == 1..NumReqs
Keys == 1..NumKeys
Gifs == 1..NumGifs
Files == 1..NumFiles
Ips == 1..NumIps

VARIABLES
    pc,          \* pc[r]: where request r is in handle_request_inner
    key,         \* key[r]: speed.to_bits() of request r
    gif,         \* gif[r]: the bytes request r holds (0: none yet)
    result,      \* result[r]: what handle_request_inner returned
    gcTotal,     \* gcTotal[r]: total_size of r's collect_garbage
    gcOldest,    \* gcOldest[r]: oldest_files of r's collect_garbage
    gcRemove,    \* gcRemove[r]: to_remove
    gcRemoved,   \* gcRemoved[r]: removed
    forgets,     \* detached row-deletion tasks of collect_garbage (lists of files)
    disk,        \* disk[k]: the cache file of key k
    lru,         \* usage_time: file -> time, rows only for files in its domain
    now,         \* SystemTime::now() in seconds
    config,      \* the configuration file, as loaded at startup
    requests,    \* requests channel: QueueRequest values
    queues,      \* RenderService::queues
    renders,     \* render_requests channel: speeds
    jobs,        \* the spawned render tasks, in the order of their spawn
    permits,     \* render_jobs: available permits
    completed,   \* completed_renders channel
    rx,          \* rx[r]: the oneshot channel of request r
    clients,     \* the client wait-set of the request gate
    ip,          \* ip[r]: the client address of request r
    response,    \* response[r]: the HTTP response request r was answered with
    asked,       \* asked[k]: the speed whose bits are the key k
    bpm,         \* bpm[r]: the BPM request r asked for, then its quantizations
    hist         \* history: what happened, for stating properties

vars == <<pc, key, gif, result, gcTotal, gcOldest, gcRemove, gcRemoved, forgets, disk, lru,
          now, config, requests, queues, renders, jobs, permits,
          completed, rx, clients, ip, response, asked, bpm, hist>>

cacheVars == <<disk, lru, now>>
gcVars == <<gcTotal, gcOldest, gcRemove, gcRemoved, forgets>>
renderVars == <<requests, queues, renders, jobs, permits, completed, rx>>
httpVars == <<clients, ip, response, asked, bpm>>

\* CacheServiceConfig, ServerConfig: the fields of the loaded configuration.
Limit == config.limit
PurgeLimit == config.purge_limit
PurgeMaxCount == config.purge_max_count

\* AnimationInfo::frame_count, resolved from the configuration.
FrameCount == config.frame_count

\* ------------------------------------------------------------- values
\* An Error is the sequence of its nested variants:
\* <<"RenderFailed", "SpeedTooFast">> is RenderFailed(SpeedTooFast).
NoError == << >>
RenderFailed(e) == <<"RenderFailed">> \o e

\* The variants of Error.
Variants == {"SpeedTooFast", "SpeedTooSlow", "Encoder", "EncoderExitCode", "CacheDb",
             "DbQuery", "CannotReadGif", "CannotWriteGif", "GifServiceOffline",
             "EncodingJobExited", "InvalidUtf8", "ClockWentBackwards", "DirSetup",
             "RenderFailed", "CollectGarbage"}

\* RenderFailed has a status of its own.
StatusCodeFlat(e) == IF e[1] \in {"SpeedTooFast", "SpeedTooSlow"} THEN 400 ELSE 500

\* Error::status_code
RECURSIVE StatusCode(_)
StatusCode(e) ==
    IF e[1] \in {"SpeedTooFast", "SpeedTooSlow"} THEN 400
    ELSE IF e[1] = "RenderFailed" THEN StatusCode(Tail(e))
    ELSE 500

\* #[error("...")]: the text of a variant, before the text of what it holds.
Text(v) ==
    CASE v = "SpeedTooFast" -> "Hat Kid got incarcerated for speeding on a highway."
      [] v = "SpeedTooSlow" -> "yawn"
      [] v = "Encoder" -> "GIF encoding process: {0}"
      [] v = "EncoderExitCode" -> "GIF encoder finished with a non-zero exit code"
      [] v = "CacheDb" -> "Cache database: {0}"
      [] v = "DbQuery" -> "Database query: {0}"
      [] v = "CannotReadGif" -> "Cannot read rendered GIF: {0}"
      [] v = "CannotWriteGif" -> "Cannot write rendered GIF: {0}"
      [] v = "GifServiceOffline" -> "Cannot send request to GIF service because it is offline"
      [] v = "EncodingJobExited" -> "Internal encoding job failure"
      [] v = "InvalidUtf8" -> "Invalid UTF-8"
      [] v = "ClockWentBackwards" -> "System clock went backwards"
      [] v = "DirSetup" -> "Directory cannot be set up: {0}"
      [] v = "RenderFailed" -> "Render failed: "
      [] v = "CollectGarbage" -> "Cache garbage collection I/O: {0}"

\* Display for Error: to_string(), as the texts of the nested variants.
Display(e) == [i \in 1..Len(e) |-> Text(e[i])]

\* The error values: a variant that holds no Error, in up to MaxWrap RenderFailed.
RECURSIVE Errors(_)
Errors(n) ==
    IF n = 0 THEN {<<v>> : v \in Variants \ {"RenderFailed"}}
    ELSE Errors(n - 1) \cup {RenderFailed(e) : e \in Errors(n - 1)}

\* The message is always the text of the error itself.
ToResponseOwn(e) == [status |-> StatusCode(e), error |-> Display(e)]

\* Error::to_response
ToResponse(e) ==
    [status |-> StatusCode(e),
     error  |-> IF e[1] = "RenderFailed" /\ StatusCode(Tail(e)) = 400
                THEN Display(Tail(e))
                ELSE Display(e)]

\* A Result<Vec<u8>, Error> or a RenderResult.
Ok(g, p) == [ok |-> TRUE, gif |-> g, pos |-> p, err |-> NoError]
Err(e) == [ok |-> FALSE, gif |-> 0, pos |-> 0, err |-> e]
Pending == [ok |-> FALSE, gif |-> 0, pos |-> 0, err |-> <<"pending">>]

\* A oneshot channel whose receiver was dropped.
Closed == [ok |-> FALSE, gif |-> 0, pos |-> 0, err |-> <<"closed">>]

NoFile == [present |-> FALSE, data |-> 0]
File(d) == [present |-> TRUE, data |-> d]

\* The length of a rendered GIF of key k (the encoder's business).
GifLen(k) == k

\* metadata.len(): a file that was created and not yet written has no bytes.
FileLen(k) == IF disk[k].present /\ disk[k].data # 0 THEN GifLen(k) ELSE 0

\* The entries of the cache directory, and the size of the largest.
OnDisk == {f \in Files : disk[f].present}
Largest == IF OnDisk = {} THEN 0
           ELSE CHOOSE n \in {FileLen(f) : f \in OnDisk} : \A f \in OnDisk : FileLen(f) <= n

RECURSIVE SumLen(_)
SumLen(S) == IF S = {} THEN 0
             ELSE LET k == CHOOSE x \in S : TRUE IN FileLen(k) + SumLen(S \ {k})

Min(a, b) == IF a <= b THEN a ELSE b
Range(s) == {s[i] : i \in 1..Len(s)}
Count(s, x) == Cardinality({i \in 1..Len(s) : s[i] = x})
RemoveAt(s, i) == SubSeq(s, 1, i - 1) \o SubSeq(s, i + 1, Len(s))

\* The directory is listed instead of the table: any n of the files on disk.
OldestFiles(rows, n) ==
    {s \in [1..Min(n, Cardinality(OnDisk)) -> OnDisk] :
        \A i, j \in 1..Min(n, Cardinality(OnDisk)) : i < j => s[i] # s[j]}

\* SELECT file FROM usage_time ORDER BY time ASC LIMIT n: the answers the
\* database may give (rows of equal time come in any order).
Oldest(rows, n) ==
    LET m == Min(n, Cardinality(DOMAIN rows)) IN
    {s \in [1..m -> DOMAIN rows] :
        /\ \A i, j \in 1..m : i < j => s[i] # s[j] /\ rows[s[i]] <= rows[s[j]]
        /\ \A f \in DOMAIN rows \ Range(s) : \A i \in 1..m : rows[s[i]] <= rows[f]}

\* ------------------------------------------------------------- speeds
\* The speed of key k, as the fraction <<numerator, denominator>>.
Speed(k) == asked[k]

\* One output frame more than the animation yields.
OutputFramesMore(speed) == (FrameCount * speed[2]) \div speed[1] + 1

\* (frame_count as f64 / speed).floor() as usize
OutputFrames(speed) == (FrameCount * speed[2]) \div speed[1]

\* The first bounds check lets a single output frame through.
BoundsErrorLoose(speed) ==
    IF OutputFrames(speed) < 1 THEN <<"SpeedTooFast">>
    ELSE IF OutputFrames(speed) > FrameCount THEN <<"SpeedTooSlow">>
    ELSE NoError

\* The bounds checks of render_speed: the error, or NoError.
BoundsError(speed) ==
    IF OutputFrames(speed) <= 1 THEN <<"SpeedTooFast">>
    ELSE IF OutputFrames(speed) > FrameCount THEN <<"SpeedTooSlow">>
    ELSE NoError

\* flag.contains(token)
Contains(flag, token) == \E i \in 1..Len(flag) : flag[i] = token

\* flag.replace(token, text)
Replace(flag, token, text) == [i \in 1..Len(flag) |-> IF flag[i] = token THEN text ELSE flag[i]]

\* The first frame is numbered 0.
InputFrameFromZero(accumulator) == accumulator[1] \div accumulator[2]

\* accumulator.floor() as usize + 1, the accumulator being a fraction.
InputFrame(accumulator) == accumulator[1] \div accumulator[2] + 1

\* accumulator += speed, i times from 0.0 (speed keeps its denominator).
RECURSIVE Accumulator(_, _)
Accumulator(speed, i) ==
    IF i = 0 THEN <<0, speed[2]>>
    ELSE <<Accumulator(speed, i - 1)[1] + speed[1], speed[2]>>

\* (0..output_frames).map(..): the arguments a {frame_indices} flag becomes.
Expanded(flag, speed) ==
    [i \in 1..OutputFrames(speed) |->
        Replace(flag, "{frame_indices}", ToString(InputFrame(Accumulator(speed, i - 1))))]

\* The arguments one flag contributes.
FlagArgs(flag, speed) ==
    IF Contains(flag, "{frame_indices}") THEN Expanded(flag, speed)
    ELSE IF Contains(flag, "{fps}") THEN <<<<ToString(config.fps)>>>>
    ELSE <<flag>>

\* let args = { .. }: the arguments of the encoder, flag after flag.
RECURSIVE Args(_, _)
Args(flags, speed) ==
    IF flags = << >> THEN << >>
    ELSE FlagArgs(Head(flags), speed) \o Args(Tail(flags), speed)

\* ------------------------------------------------------------- f64
\* A 53-bit significand is the pair <<hi, lo>> of value hi * Limb + lo.
Limb == 2 ^ 27
Top == 2 ^ 25

Dbl(x) == <<2 * x[1] + (2 * x[2]) \div Limb, (2 * x[2]) % Limb>>
Inc(x) == IF x[2] + 1 = Limb THEN <<x[1] + 1, 0>> ELSE <<x[1], x[2] + 1>>
Geq(x, y) == x[1] > y[1] \/ (x[1] = y[1] /\ x[2] >= y[2])
Sub(x, y) ==
    IF x[2] >= y[2] THEN <<x[1] - y[1], x[2] - y[2]>>
    ELSE <<x[1] - y[1] - 1, x[2] + Limb - y[2]>>
Odd(x) == x[2] % 2 = 1

\* A finite positive f64 is [m, e] of value m * 2^e with 2^52 <= m < 2^53;
\* Infinity is what the division by zero gives.
Infinity == [m |-> <<0, 0>>, e |-> 0]

RECURSIVE Normal(_, _)
Normal(m, e) == IF m[1] >= Top THEN [m |-> m, e |-> e] ELSE Normal(Dbl(m), e - 1)

\* n as f64, exact for 0 < n < 2^27.
FromInt(n) == Normal(<<0, n>>, 0)

\* n steps of the long division of r (shifted) by d: <<quotient, 2 * remainder>>.
LongDiv(r, d, q, n) ==
    LET Pairs == Int \X Int
        step[a \in Pairs \X Pairs \X Int] ==
            IF a[3] = 0 THEN <<a[2], a[1]>>
            ELSE IF Geq(a[1], d) THEN step[<<Dbl(Sub(a[1], d)), Inc(Dbl(a[2])), a[3] - 1>>]
            ELSE step[<<Dbl(a[1]), Dbl(a[2]), a[3] - 1>>]
    IN step[<<r, q, n>>]

\* Round to nearest, ties to even: the quotient q with twice the remainder r.
Rounded(q, r, d, e) ==
    LET up == (Geq(r, d) /\ r # d) \/ (r = d /\ Odd(q))
        m == IF up THEN Inc(q) ELSE q
    IN IF m[1] = 2 * Top THEN [m |-> <<Top, 0>>, e |-> e + 1] ELSE [m |-> m, e |-> e]

\* x / y in f64, for finite positive x and y: the correctly rounded quotient.
FDiv(x, y) ==
    IF Geq(x.m, y.m)
    THEN LET d == LongDiv(x.m, y.m, <<0, 0>>, 53) IN Rounded(d[1], d[2], y.m, x.e - y.e - 52)
    ELSE LET d == LongDiv(x.m, y.m, <<0, 0>>, 54) IN Rounded(d[1], d[2], y.m, x.e - y.e - 53)

\* f64::floor of a finite positive x below 2^26, as the integer it is.
Floor(x) ==
    IF x.e < -52 THEN 0
    ELSE x.m[1] \div (2 ^ (-x.e - 27))

\* self.wave_count * self.fps * 60.0: a product of small integers, exact in f64.
Waves == FromInt(config.wave_count * config.fps * 60)

\* AnimationInfo::quantize_bpm_to_nearest_supported
QuantizeBpm(b) ==
    LET unrounded_frame_count == FDiv(Waves, b)
        frame_count == Floor(unrounded_frame_count)
    IN IF frame_count = 0 THEN Infinity ELSE FDiv(Waves, FromInt(frame_count))

\* ------------------------------------------------------------- initial state
\* An encoder flag is its text in pieces, a placeholder being a piece of its
\* own. The configured flags: a plain one, the input frames, the frame rate,
\* and a plain one.
EncoderFlags ==
    <<<<"-loop">>, <<"frames/", "{frame_indices}", ".png">>, <<"-r=", "{fps}">>, <<"-o-">>>>

\* A configuration: whether cache_dir is valid UTF-8, the limits of the cache
\* service, the rate limiting of the server.
Config(u, l, p, c, rl) ==
    [utf8 |-> u, limit |-> l, purge_limit |-> p, purge_max_count |-> c, rate_limiting |-> rl,
     frame_count |-> 4, wave_count |-> 12, fps |-> 50, encoder_flags |-> EncoderFlags]

\* The answer to a request that is not answered yet.
NoResponse == [status |-> 0, error |-> << >>]

\* The configurations the service is started with on an empty cache directory.
Configs == {Config(u, 2, 1, 2, FALSE) : u \in BOOLEAN}

HistInit ==
    [spawned  |-> [k \in Keys |-> 0],     \* encoder subprocesses spawned for k
     bcasts   |-> [k \in Keys |-> 0],     \* completed renders of k handled
     produced |-> [k \in Keys |-> {}],    \* outputs of the finished encoders of k
     rank     |-> [r \in Reqs |-> 0],     \* waiters in the list when r was pushed
     after    |-> [r \in Reqs |-> 0],     \* broadcasts of its key before r was pushed
     sends    |-> [r \in Reqs |-> 0],     \* outcomes sent to r's oneshot channel
     job      |-> [r \in Reqs |-> 0],     \* the how-manieth render of its key r got
     path     |-> [r \in Reqs |-> "none"],\* "hit" or "miss": r's existence check
     wrote    |-> {},                     \* requests that called fs::write
     gcFailed |-> {},                     \* requests whose collect_garbage failed
     dbFailed |-> {},                     \* requests whose LRU task failed
     fresh    |-> {},                     \* requests holding bytes the file still has
     served   |-> [f \in Files |-> {}],    \* bytes returned by requests of k, each
                                          \* with whether the file still has them
     seen     |-> [r \in Reqs |-> {}],    \* served[key[r]] when r was issued
     gcAt     |-> [r \in Reqs |-> {}],    \* files on disk when r's pass enumerated
     gcSize   |-> [r \in Reqs |-> 0],     \* total_size as r's pass enumerated it
     gcList   |-> [r \in Reqs |-> << >>], \* oldest_files of r's pass
     gcRows   |-> [r \in Reqs |-> {}],    \* files with a row when r's pass queried
     gcSeen   |-> [r \in Reqs |-> {}],    \* files on disk when r's pass walked the list
     gcRec    |-> [r \in Reqs |-> << >>], \* to_remove of r's pass, with the sizes
     gcTot    |-> [r \in Reqs |-> 0],     \* total_size of r's pass after the walk
     gcDel    |-> [r \in Reqs |-> {}],    \* files r's pass deleted
     gcLeft   |-> [r \in Reqs |-> << >>], \* after the last deletion of r's pass: the
                                          \* size of the directory, the largest file before
     gcEnd    |-> [r \in Reqs |-> "none"],\* "ok": r's pass returned Ok(())
     gcListed |-> [r \in Reqs |-> 0],     \* size of the indexed files when it returned
     gcDirty  |-> {},                     \* passes during which a file or a row was written
     forgot   |-> {}]                     \* files whose rows a deletion task removed

\* What every start has in common: no request in the services, no client in
\* the gate, the configuration c and the speeds a.
Quiet(c, a) ==
    /\ key = [r \in Reqs |-> 1]
    /\ gif = [r \in Reqs |-> 0]
    /\ gcTotal = [r \in Reqs |-> 0]
    /\ gcOldest = [r \in Reqs |-> << >>]
    /\ gcRemove = [r \in Reqs |-> << >>]
    /\ gcRemoved = [r \in Reqs |-> << >>]
    /\ forgets = << >>
    /\ config = c
    /\ requests = << >>
    /\ queues = [k \in Keys |-> << >>]
    /\ renders = << >>
    /\ jobs = << >>
    /\ permits = MaxJobs
    /\ completed = << >>
    /\ rx = [r \in Reqs |-> Pending]
    /\ clients = {}
    /\ ip = [r \in Reqs |-> 1]
    /\ response = [r \in Reqs |-> NoResponse]
    /\ asked = a
    /\ hist = HistInit

\* The state after RenderService::spawn and GifService::spawn: no request yet,
\* the cache directory d and the usage_time table l as earlier runs left them,
\* the configuration c, the clock at t; a is the speeds clients ask for.
Boot(d, l, c, a, t) ==
    /\ Quiet(c, a)
    /\ pc = [r \in Reqs |-> "idle"]
    /\ result = [r \in Reqs |-> Pending]
    /\ disk = d
    /\ lru = l
    /\ now = t
    /\ bpm = [r \in Reqs |-> << >>]

\* An empty cache directory, and the speeds 1 and 2.
ColdDisk == [f \in Files |-> NoFile]
TwoSpeeds == [k \in Keys |-> <<k, 1>>]

Init == \E c \in Configs : Boot(ColdDisk, << >>, c, TwoSpeeds, 1)

\* The speeds a client can ask for, and what the first key stands for when
\* the second is the speed 2.
Speeds == {<<n, d>> : n \in 1..MaxNum, d \in 1..MaxDen}
AskedSpeeds == {[k \in Keys |-> IF k = 1 THEN sp ELSE <<2, 1>>] :
                   sp \in {x \in Speeds : x[1] # 2 * x[2]}}

\* The service starts on an empty cache, with an animation of any frame count,
\* and is asked for any speed.
InitSpeeds ==
    \E a \in AskedSpeeds, n \in 1..MaxFrames :
        Boot(ColdDisk, << >>, [Config(TRUE, 2, 1, 2, FALSE) EXCEPT !.frame_count = n], a, 1)

\* The configurations the service is restarted with on a cache directory that
\* earlier runs have filled: limits the directory reaches, a purge that one
\* file satisfies or that takes several, a purge_limit above every file.
GcConfigs == {Config(TRUE, 2, 1, 2, FALSE), Config(TRUE, 2, 1, 1, FALSE),
              Config(TRUE, 5, 4, 2, FALSE)}

\* The cache directory and the usage_time table earlier runs have left: the
\* files 2 and 3, both with a row, or the file 2 without.
WarmIndexes == {[f \in {2, 3} |-> IF f = 2 THEN 1 ELSE MaxTime],
                [f \in {3} |-> 1]}

\* The service starts on a warm cache.
InitGc ==
    \E l \in WarmIndexes, c \in GcConfigs :
        Boot([f \in Files |-> IF f \in {2, 3} THEN File(1) ELSE NoFile], l, c, TwoSpeeds,
             MaxTime)

\* What a run leaves that ended between the deletion of file 2 and the task
\* that deletes its row: the file 3 with its row, and the row of file 2.
StaleDisk == [f \in Files |-> IF f = 3 THEN File(1) ELSE NoFile]
StaleIndex == [f \in {2, 3} |-> IF f = 2 THEN 1 ELSE MaxTime]

\* The service starts on that cache directory.
InitStale == \E c \in GcConfigs : Boot(StaleDisk, StaleIndex, c, TwoSpeeds, MaxTime)

\* ------------------------------------------------------------- render service
\* RenderServiceHandle::render_speed, the send: the QueueRequest enters the
\* requests channel (the caller is suspended while the channel is full) and the
\* caller awaits its oneshot receiver.
SendQueueRequest(r) ==
    /\ Len(requests) < RequestsCap
    /\ requests' = Append(requests, [speed |-> key[r], responder |-> r])
    /\ pc' = [pc EXCEPT ![r] = "wait"]

\* A render is requested for every request.
RequestRenderAlways(queue) == TRUE

\* A render is requested when the list already has waiters.
RequestRenderInverted(queue) == queue # << >>

\* No render is ever requested.
RequestRenderNever(queue) == FALSE

\* let request_render = queue.is_empty();
RequestRender(queue) == queue = << >>

\* RenderService::handle_request: push the responder; dispatch a render if the
\* waiter list was empty.  The coordinator is suspended in the send while the
\* renders channel is full.
HandleRequest ==
    /\ requests # << >>
    /\ LET q == Head(requests)
           k == q.speed
       IN /\ queues' = [queues EXCEPT ![k] = Append(@, q.responder)]
          /\ hist' = [hist EXCEPT !.rank[q.responder] = Len(queues[k]),
                                  !.after[q.responder] = hist.bcasts[k]]
          /\ IF RequestRender(queues[k])
             THEN /\ Len(renders) < RendersCap
                  /\ renders' = Append(renders, k)
             ELSE UNCHANGED renders
    /\ requests' = Tail(requests)
    /\ UNCHANGED <<pc, key, gif, result, gcVars, cacheVars, config, httpVars, jobs,
                   permits, completed, rx>>

\* The dispatcher: while let Some(speed) = renders_rx.recv().await { spawn }.
Dispatch ==
    /\ renders # << >>
    /\ jobs' = Append(jobs, [speed |-> Head(renders), st |-> "acquire", res |-> Pending,
                              args |-> << >>])
    /\ renders' = Tail(renders)
    /\ UNCHANGED <<pc, key, gif, result, gcVars, cacheVars, config, httpVars, requests, queues,
                   permits, completed, rx, hist>>

\* The semaphore gives a permit it does not have.
PermitAlways(n) == TRUE

\* The semaphore never gives a permit.
PermitNever(n) == FALSE

\* self.render_jobs.acquire().await: a permit is there to take.
PermitAvailable(n) == n > 0

\* RenderService::render_speed from the acquired permit to the first await
\* after it: the bounds checks, the arguments and the spawn of the encoder.
\* An early return drops the permit at once.
StartRender(i) ==
    /\ i \in 1..Len(jobs)
    /\ jobs[i].st = "acquire"
    /\ PermitAvailable(permits)
    /\ LET speed == jobs[i].speed IN
       \/ /\ BoundsError(Speed(speed)) # NoError
          /\ jobs' = [jobs EXCEPT ![i].st = "send", ![i].res = Err(BoundsError(Speed(speed)))]
          /\ UNCHANGED <<permits, hist>>
       \/ /\ BoundsError(Speed(speed)) = NoError
          /\ jobs' = [jobs EXCEPT ![i].st = "send", ![i].res = Err(<<"Encoder">>),
                                  ![i].args = Args(config.encoder_flags, Speed(speed))]
          /\ UNCHANGED <<permits, hist>>
       \/ /\ BoundsError(Speed(speed)) = NoError
          /\ jobs' = [jobs EXCEPT ![i].st = "encoding",
                                  ![i].args = Args(config.encoder_flags, Speed(speed))]
          /\ permits' = permits - 1
          /\ hist' = [hist EXCEPT !.spawned[speed] = @ + 1]
    /\ UNCHANGED <<pc, key, gif, result, gcVars, cacheVars, config, httpVars, requests, queues,
                   renders, completed, rx>>

\* What wait_with_output and the exit status check make of an encoder run.
EncoderResults == {Ok(g, 0) : g \in Gifs} \cup {Err(<<"Encoder">>), Err(<<"EncoderExitCode">>)}

\* The permit is forgotten instead of dropped.
DroppedNever(n) == n

\* _permit goes out of scope: the semaphore has its permit back.
Dropped(n) == n + 1

\* The encoder ends: render_speed returns and its permit is dropped.
FinishRender(i) ==
    /\ i \in 1..Len(jobs)
    /\ jobs[i].st = "encoding"
    /\ \E res \in EncoderResults :
          /\ jobs' = [jobs EXCEPT ![i].st = "send", ![i].res = res]
          /\ hist' = [hist EXCEPT !.produced[jobs[i].speed] =
                                     IF res.ok THEN @ \cup {res.gif} ELSE @]
    /\ permits' = Dropped(permits)
    /\ UNCHANGED <<pc, key, gif, result, gcVars, cacheVars, config, httpVars, requests, queues,
                   renders, completed, rx>>

\* completed_renders_tx.send((speed, result)).await, the end of the render task.
SendCompleted(i) ==
    /\ i \in 1..Len(jobs)
    /\ jobs[i].st = "send"
    /\ Len(completed) < CompletedCap
    /\ completed' = Append(completed, [speed |-> jobs[i].speed, res |-> jobs[i].res])
    /\ jobs' = RemoveAt(jobs, i)
    /\ UNCHANGED <<pc, key, gif, result, gcVars, cacheVars, config, httpVars, requests, queues,
                   renders, permits, rx, hist>>

\* The error goes to the first waiter; the others get a stand-in.
OutcomeErrorMoved(res, i) ==
    IF res.ok THEN Ok(res.gif, i - 1)
    ELSE IF i = 1 THEN res ELSE Err(<<"EncodingJobExited">>)

\* The positions count from one.
OutcomeFromOne(res, i) == IF res.ok THEN Ok(res.gif, i) ELSE res

\* result.clone().map(|file| (file, i)) for the i-th drained waiter (from 1 here).
Outcome(res, i) == IF res.ok THEN Ok(res.gif, i - 1) ELSE res

\* The first send that fails ends the loop: the waiters behind a dropped
\* receiver get nothing.
ListeningAhead(queue) ==
    {queue[i] : i \in {j \in 1..Len(queue) : \A n \in 1..j : rx[queue[n]] # Closed}}

\* let _ = waiting.send(..): the send to a dropped receiver fails and is
\* ignored; the waiters that still listen get the outcome.
Listening(queue) == {r \in Range(queue) : rx[r] # Closed}

\* The caller of RenderServiceHandle::render_speed is dropped while it awaits
\* the outcome: its receiver is gone, its responder stays where it is.
DropReceiver(r) ==
    /\ pc[r] = "wait"
    /\ rx[r] = Pending
    /\ pc' = [pc EXCEPT ![r] = "dropped"]
    /\ rx' = [rx EXCEPT ![r] = Closed]
    /\ UNCHANGED <<key, gif, result, gcVars, cacheVars, config, httpVars, requests, queues,
                   renders, jobs, permits, completed, hist>>

\* The closure answers false: the entry stays, with the waiters in it.
DrainedKept(queue) == queue

\* queue.drain(..) and the closure's true: the entry is removed from the map.
Drained(queue) == << >>

\* RenderService::handle_complete_render: drain the waiter list of the speed,
\* send every waiter its outcome, remove the entry.
HandleCompleteRender ==
    /\ completed # << >>
    /\ LET c == Head(completed)
           queue == queues[c.speed]
           at(r) == CHOOSE i \in 1..Len(queue) : queue[i] = r
       IN /\ rx' = [r \in Reqs |-> IF r \in Listening(queue) THEN Outcome(c.res, at(r))
                                   ELSE rx[r]]
          /\ queues' = [queues EXCEPT ![c.speed] = Drained(queue)]
          /\ hist' = [hist EXCEPT
                 !.bcasts[c.speed] = @ + 1,
                 !.sends = [r \in Reqs |-> IF r \in Listening(queue) THEN @[r] + Count(queue, r)
                                            ELSE @[r]],
                 !.job = [r \in Reqs |-> IF r \in Listening(queue) THEN hist.bcasts[c.speed] + 1
                                         ELSE @[r]]]
    /\ completed' = Tail(completed)
    /\ UNCHANGED <<pc, key, gif, result, gcVars, cacheVars, config, httpVars, requests, renders,
                   jobs, permits>>

\* ------------------------------------------------------------- cache service
\* History: the file of key k was written (or deleted, by collect_garbage), so
\* bytes obtained from it before are no longer known to be its content.
Stale(S) == {[gif |-> e.gif, fresh |-> FALSE] : e \in S}
Changed(h, k, deleted) ==
    [h EXCEPT !.fresh = {r \in @ : key[r] # k},
              !.served[k] = IF deleted THEN {} ELSE Stale(@),
              !.seen = [r \in Reqs |-> IF key[r] # k THEN @[r]
                                       ELSE IF deleted THEN {} ELSE Stale(@[r])]]

\* History: the pass of request r has returned Ok(()), the indexed files
\* having the given size.
EndPass(h, r, listed) == [h EXCEPT !.gcEnd[r] = "ok", !.gcListed[r] = listed]

\* History: a cache file or a row is written; the passes that are under way.
InPass == {r \in Reqs : pc[r] \in {"gc_query", "gc_walk", "gc_delete"}}
Dirtied(h) == [h EXCEPT !.gcDirty = @ \cup InPass]

\* The existence check looks at another path: every request is a miss.
StartRequestMiss(r, k) ==
    /\ pc[r] = "idle"
    /\ key' = [key EXCEPT ![r] = k]
    /\ pc' = [pc EXCEPT ![r] = "gc"]
    /\ hist' = [hist EXCEPT !.seen[r] = hist.served[k], !.path[r] = "miss"]
    /\ UNCHANGED <<gif, result, gcVars, cacheVars, config, httpVars, renderVars>>

\* The existence check ignored on a hit: collect_garbage runs all the same.
EnterCollects(r, k) ==
    /\ pc[r] = "idle"
    /\ key' = [key EXCEPT ![r] = k]
    /\ pc' = [pc EXCEPT ![r] = "gc"]
    /\ hist' = [hist EXCEPT !.seen[r] = hist.served[k],
                            !.path[r] = IF disk[k].present THEN "hit" ELSE "miss"]
    /\ UNCHANGED <<gif, result, gcVars, cacheVars, config, renderVars>>

\* CacheServiceHandle::request_speed, the task GifService::spawn starts for the
\* request, and the first thing it does: if !cached_filename.exists().
Enter(r, k) ==
    /\ pc[r] = "idle"
    /\ key' = [key EXCEPT ![r] = k]
    /\ IF disk[k].present
       THEN /\ pc' = [pc EXCEPT ![r] = "read"]
            /\ hist' = [hist EXCEPT !.seen[r] = hist.served[k], !.path[r] = "hit"]
       ELSE /\ pc' = [pc EXCEPT ![r] = "gc"]
            /\ hist' = [hist EXCEPT !.seen[r] = hist.served[k], !.path[r] = "miss"]
    /\ UNCHANGED <<gif, result, gcVars, cacheVars, config, renderVars>>

\* The request as the services see it: the gate and the answers apart.
StartRequest(r, k) == Enter(r, k) /\ UNCHANGED httpVars

\* One of the first MaxActive requests arrives, whatever the others are doing
\* (in the order of their numbers: they are all alike).
Request(r, k) ==
    /\ r <= MaxActive
    /\ \A q \in Reqs : q < r => pc[q] # "idle"
    /\ StartRequest(r, k)

\* A later request for a key arrives once an earlier request for that key has
\* returned its bytes.
LateRequest(r, k) ==
    /\ r > MaxActive
    /\ \A q \in Reqs : q < r => pc[q] # "idle"
    /\ \E q \in Reqs : pc[q] = "done" /\ result[q].ok /\ key[q] = k
    /\ StartRequest(r, k)

\* tokio::fs::read(&cached_filename): the bytes the file has now, or
\* CannotReadGif when it is gone.
ReadFile(r) ==
    /\ pc[r] = "read"
    /\ \/ /\ disk[key[r]].present
          /\ gif' = [gif EXCEPT ![r] = disk[key[r]].data]
          /\ pc' = [pc EXCEPT ![r] = "touch"]
          /\ hist' = [hist EXCEPT !.fresh = @ \cup {r}]
          /\ UNCHANGED result
       \/ /\ ~disk[key[r]].present
          /\ result' = [result EXCEPT ![r] = Err(<<"CannotReadGif">>)]
          /\ pc' = [pc EXCEPT ![r] = "done"]
          /\ UNCHANGED <<gif, hist>>
    /\ UNCHANGED <<key, gcVars, cacheVars, config, httpVars, renderVars>>

\* collect_garbage has returned; the request goes on to
\* self.render_service.render_speed(speed).
GcDone(r) ==
    /\ SendQueueRequest(r)
    /\ gcTotal' = [gcTotal EXCEPT ![r] = 0]
    /\ gcOldest' = [gcOldest EXCEPT ![r] = << >>]
    /\ gcRemove' = [gcRemove EXCEPT ![r] = << >>]
    /\ gcRemoved' = [gcRemoved EXCEPT ![r] = << >>]
    /\ UNCHANGED result

\* The error of collect_garbage is returned with `?`.
GcFailedFatal(r, e) ==
    /\ pc' = [pc EXCEPT ![r] = "done"]
    /\ result' = [result EXCEPT ![r] = Err(e)]
    /\ hist' = [hist EXCEPT !.gcFailed = @ \cup {r}]
    /\ gcTotal' = [gcTotal EXCEPT ![r] = 0]
    /\ gcOldest' = [gcOldest EXCEPT ![r] = << >>]
    /\ gcRemove' = [gcRemove EXCEPT ![r] = << >>]
    /\ gcRemoved' = [gcRemoved EXCEPT ![r] = << >>]
    /\ UNCHANGED <<forgets, requests>>

\* if let Err(error) = self.collect_garbage().await { error!("{error}") }
GcFailed(r, e) ==
    /\ GcDone(r)
    /\ hist' = [hist EXCEPT !.gcFailed = @ \cup {r}]
    /\ UNCHANGED forgets

\* collect_garbage, the enumeration of the cache directory and the limit check.
GcEnumerate(r) ==
    /\ pc[r] = "gc"
    /\ \/ GcFailed(r, <<"CollectGarbage">>)
       \/ /\ SumLen(Files) >= Limit
          /\ gcTotal' = [gcTotal EXCEPT ![r] = SumLen(Files)]
          /\ pc' = [pc EXCEPT ![r] = "gc_query"]
          /\ hist' = [hist EXCEPT !.gcAt[r] = OnDisk, !.gcSize[r] = SumLen(Files)]
          /\ UNCHANGED <<result, gcOldest, gcRemove, gcRemoved, forgets, requests>>
       \/ /\ SumLen(Files) < Limit
          /\ GcDone(r)
          /\ hist' = EndPass([hist EXCEPT !.gcAt[r] = OnDisk, !.gcSize[r] = SumLen(Files)],
                              r, SumLen(DOMAIN lru))
          /\ UNCHANGED forgets
    /\ UNCHANGED <<key, gif, cacheVars, config, httpVars, queues, renders, jobs, permits,
                   completed, rx>>

\* collect_garbage, the query of the oldest files (a blocking task, awaited).
GcQuery(r) ==
    /\ pc[r] = "gc_query"
    /\ \/ GcFailed(r, <<"DbQuery">>)
       \/ /\ \E s \in Oldest(lru, PurgeMaxCount) :
                /\ gcOldest' = [gcOldest EXCEPT ![r] = s]
                /\ hist' = [hist EXCEPT !.gcList[r] = s, !.gcRows[r] = DOMAIN lru]
          /\ pc' = [pc EXCEPT ![r] = "gc_walk"]
          /\ UNCHANGED <<result, gcTotal, gcRemove, gcRemoved, forgets, requests>>
    /\ UNCHANGED <<key, gif, cacheVars, config, httpVars, queues, renders, jobs, permits,
                   completed, rx>>

\* total_size is a u64: a value that wrapped below zero is held as the negative
\* number congruent to it modulo 2^64, which compares above every limit.
Leq64(total, limit) == total >= 0 /\ total <= limit

\* The loop records the files without looking whether they exist.
RECURSIVE WalkBlind(_, _, _, _)
WalkBlind(oldest, i, remove, total) ==
    IF i > Len(oldest) THEN [remove |-> remove, total |-> total]
    ELSE IF Leq64(total - FileLen(oldest[i]), PurgeLimit)
         THEN [remove |-> Append(remove, oldest[i]), total |-> total - FileLen(oldest[i])]
         ELSE WalkBlind(oldest, i + 1, Append(remove, oldest[i]), total - FileLen(oldest[i]))

\* The loop goes on below purge_limit, to the end of the list.
RECURSIVE WalkOn(_, _, _, _)
WalkOn(oldest, i, remove, total) ==
    IF i > Len(oldest) THEN [remove |-> remove, total |-> total]
    ELSE IF ~disk[oldest[i]].present THEN WalkOn(oldest, i + 1, remove, total)
    ELSE WalkOn(oldest, i + 1, Append(remove, oldest[i]), total - FileLen(oldest[i]))

\* The loop records the first file it finds and stops.
RECURSIVE WalkFirst(_, _, _, _)
WalkFirst(oldest, i, remove, total) ==
    IF i > Len(oldest) THEN [remove |-> remove, total |-> total]
    ELSE IF ~disk[oldest[i]].present THEN WalkFirst(oldest, i + 1, remove, total)
    ELSE [remove |-> Append(remove, oldest[i]), total |-> total - FileLen(oldest[i])]

\* The loop over oldest_files: [remove |-> to_remove, total |-> total_size] from
\* position i on.
RECURSIVE Walk(_, _, _, _)
Walk(oldest, i, remove, total) ==
    IF i > Len(oldest) THEN [remove |-> remove, total |-> total]
    ELSE IF ~disk[oldest[i]].present THEN Walk(oldest, i + 1, remove, total)
    ELSE IF Leq64(total - FileLen(oldest[i]), PurgeLimit)
         THEN [remove |-> Append(remove, oldest[i]), total |-> total - FileLen(oldest[i])]
         ELSE Walk(oldest, i + 1, Append(remove, oldest[i]), total - FileLen(oldest[i]))

\* The row of the file the loop ended on is deleted whether or not the file was.
GcFinishLast(r, removed) ==
    /\ forgets' = IF removed \o gcRemove[r] = << >> THEN forgets
                  ELSE Append(forgets, removed \o gcRemove[r])
    /\ GcDone(r)

\* collect_garbage, its end: the task that deletes the rows of the removed
\* files is spawned and not awaited.
GcFinish(r, removed) ==
    /\ forgets' = IF removed = << >> THEN forgets ELSE Append(forgets, removed)
    /\ GcDone(r)

\* total_size -= metadata.len() overflows in a build with overflow checks: the
\* task of the request panics, its responder is dropped, and request_speed
\* returns EncodingJobExited.
GcPanic(r) ==
    /\ pc' = [pc EXCEPT ![r] = "done"]
    /\ result' = [result EXCEPT ![r] = Err(<<"EncodingJobExited">>)]
    /\ gcTotal' = [gcTotal EXCEPT ![r] = 0]
    /\ gcOldest' = [gcOldest EXCEPT ![r] = << >>]
    /\ UNCHANGED <<gcRemove, gcRemoved, forgets, requests>>

\* collect_garbage, the choice of the files to remove.
GcWalk(r) ==
    /\ pc[r] = "gc_walk"
    /\ LET w == Walk(gcOldest[r], 1, << >>, gcTotal[r])
           h == [hist EXCEPT
                 !.gcSeen[r] = OnDisk,
                 !.gcRec[r] = [i \in 1..Len(w.remove) |->
                                  [file |-> w.remove[i], len |-> FileLen(w.remove[i])]],
                 !.gcTot[r] = w.total]
       IN \/ /\ hist' = IF w.remove = << >> THEN EndPass(h, r, SumLen(DOMAIN lru)) ELSE h
             /\ IF w.remove = << >>
                THEN GcFinish(r, << >>)
                ELSE /\ gcRemove' = [gcRemove EXCEPT ![r] = w.remove]
                     /\ gcTotal' = [gcTotal EXCEPT ![r] = w.total]
                     /\ pc' = [pc EXCEPT ![r] = "gc_delete"]
                     /\ UNCHANGED <<result, gcOldest, gcRemoved, forgets, requests>>
          \/ /\ w.total < 0
             /\ GcPanic(r)
             /\ hist' = [h EXCEPT !.gcRec[r] = << >>, !.gcEnd[r] = "panic"]
    /\ UNCHANGED <<key, gif, cacheVars, config, httpVars, queues, renders, jobs, permits,
                   completed, rx>>

\* collect_garbage, tokio::fs::remove_file of the next file of to_remove.
GcDelete(r) ==
    /\ pc[r] = "gc_delete"
    /\ LET f == Head(gcRemove[r])
           last == Len(gcRemove[r]) = 1
           next(removed) ==
               IF last THEN GcFinish(r, removed)
               ELSE /\ gcRemove' = [gcRemove EXCEPT ![r] = Tail(@)]
                    /\ gcRemoved' = [gcRemoved EXCEPT ![r] = removed]
                    /\ UNCHANGED <<pc, result, gcTotal, gcOldest, forgets, requests>>
           ended(h, listed) == IF last THEN EndPass(h, r, listed) ELSE h
       IN \/ /\ disk[f].present
             /\ disk' = [disk EXCEPT ![f] = NoFile]
             /\ hist' = ended([Changed(hist, f, TRUE) EXCEPT
                                 !.gcDel[r] = @ \cup {f},
                                 !.gcLeft[r] = <<SumLen(Files) - FileLen(f), Largest>>],
                              SumLen(DOMAIN lru \ {f}))
             /\ next(Append(gcRemoved[r], f))
          \/ /\ UNCHANGED disk
             /\ hist' = ended(hist, SumLen(DOMAIN lru))
             /\ next(gcRemoved[r])
    /\ UNCHANGED <<key, gif, lru, now, config, httpVars, queues, renders, jobs, permits,
                   completed, rx>>

\* The spawned task empties the table.
ForgetAllRows(i) ==
    /\ i \in 1..Len(forgets)
    /\ lru' = << >>
    /\ forgets' = RemoveAt(forgets, i)
    /\ hist' = [hist EXCEPT !.forgot = @ \cup Range(forgets[i])]
    /\ UNCHANGED <<pc, key, gif, result, gcTotal, gcOldest, gcRemove, gcRemoved, disk,
                   now, config, httpVars, renderVars>>

\* The spawned task: DELETE FROM usage_time WHERE file = ?1, for every file.
ForgetRows(i) ==
    /\ i \in 1..Len(forgets)
    /\ lru' = [f \in DOMAIN lru \ Range(forgets[i]) |-> lru[f]]
    /\ forgets' = RemoveAt(forgets, i)
    /\ hist' = [hist EXCEPT !.forgot = @ \cup Range(forgets[i])]
    /\ UNCHANGED <<pc, key, gif, result, gcTotal, gcOldest, gcRemove, gcRemoved, disk,
                   now, config, httpVars, renderVars>>

\* Every waiter writes the file.
WritesFileAlways(position) == TRUE

\* if position_in_queue == 0
WritesFile(position) == position = 0

\* The outcome of render_speed arrives: .map_err(Error::RenderFailed)? and the
\* test of the position.
AwaitRender(r) ==
    /\ pc[r] = "wait"
    /\ rx[r] # Pending
    /\ IF rx[r].ok
       THEN /\ gif' = [gif EXCEPT ![r] = rx[r].gif]
            /\ pc' = [pc EXCEPT ![r] = IF WritesFile(rx[r].pos) THEN "write" ELSE "touch"]
            /\ UNCHANGED result
       ELSE /\ result' = [result EXCEPT ![r] = Err(RenderFailed(rx[r].err))]
            /\ pc' = [pc EXCEPT ![r] = "done"]
            /\ UNCHANGED gif
    /\ UNCHANGED <<key, gcVars, cacheVars, config, httpVars, renderVars, hist>>

\* tokio::fs::write, its File::create: the file exists, without bytes.
WriteCreate(r) ==
    /\ pc[r] = "write"
    /\ \/ /\ disk' = [disk EXCEPT ![key[r]] = File(0)]
          /\ pc' = [pc EXCEPT ![r] = "write_all"]
          /\ hist' = [Changed(hist, key[r], FALSE) EXCEPT !.wrote = @ \cup {r}]
          /\ UNCHANGED result
       \/ /\ result' = [result EXCEPT ![r] = Err(<<"CannotWriteGif">>)]
          /\ pc' = [pc EXCEPT ![r] = "done"]
          /\ hist' = [hist EXCEPT !.wrote = @ \cup {r}]
          /\ UNCHANGED disk
    /\ UNCHANGED <<key, gif, gcVars, lru, now, config, httpVars, renderVars>>

\* tokio::fs::write, its write_all: the bytes reach the file (a file removed
\* meanwhile stays removed).
WriteAll(r) ==
    /\ pc[r] = "write_all"
    /\ \/ /\ disk' = [disk EXCEPT ![key[r]] = IF @.present THEN File(gif[r]) ELSE @]
          /\ pc' = [pc EXCEPT ![r] = "touch"]
          /\ hist' = [Dirtied(Changed(hist, key[r], FALSE)) EXCEPT
                        !.fresh = IF disk[key[r]].present THEN @ \cup {r} ELSE @]
          /\ UNCHANGED result
       \/ /\ result' = [result EXCEPT ![r] = Err(<<"CannotWriteGif">>)]
          /\ pc' = [pc EXCEPT ![r] = "done"]
          /\ UNCHANGED <<disk, hist>>
    /\ UNCHANGED <<key, gif, gcVars, lru, now, config, httpVars, renderVars>>

\* Ok(file): the request returns its bytes.
ReturnBytes(r, h) ==
    /\ result' = [result EXCEPT ![r] = Ok(gif[r], 0)]
    /\ hist' = [h EXCEPT !.served[key[r]] = @ \cup {[gif |-> gif[r], fresh |-> r \in h.fresh]}]

\* The error of the LRU task is returned.
LruTaskFailedSurfaced(r) ==
    /\ result' = [result EXCEPT ![r] = Err(<<"CacheDb">>)]
    /\ hist' = [hist EXCEPT !.dbFailed = @ \cup {r}]
    /\ UNCHANGED lru

\* let _ = tokio::task::spawn_blocking(..).await: the statement fails or the
\* task panics, and the result is dropped.
LruTaskFailed(r) ==
    /\ ReturnBytes(r, [hist EXCEPT !.dbFailed = @ \cup {r}])
    /\ UNCHANGED lru

\* The statement replaces the table by its row.
UpsertAlone(rows, file, time) == [f \in {file} |-> time]

\* INSERT OR REPLACE INTO usage_time (file, time) VALUES (?1, ?2)
Upsert(rows, file, time) ==
    [f \in DOMAIN rows \cup {file} |-> IF f = file THEN time ELSE rows[f]]

\* The LRU update and the return: the path as a string, the time, INSERT OR
\* REPLACE INTO usage_time in a blocking task, Ok(file).
Touch(r) ==
    /\ pc[r] = "touch"
    /\ \/ /\ ~config.utf8
          /\ result' = [result EXCEPT ![r] = Err(<<"InvalidUtf8">>)]
          /\ UNCHANGED <<lru, now, hist>>
       \/ /\ config.utf8
          /\ result' = [result EXCEPT ![r] = Err(<<"ClockWentBackwards">>)]
          /\ UNCHANGED <<lru, now, hist>>
       \/ /\ config.utf8
          /\ \E t \in {now, Min(now + 1, MaxTime)} :
                /\ now' = t
                /\ \/ /\ lru' = Upsert(lru, key[r], t)
                      /\ ReturnBytes(r, Dirtied(hist))
                   \/ LruTaskFailed(r)
    /\ pc' = [pc EXCEPT ![r] = "done"]
    /\ UNCHANGED <<key, gif, gcVars, disk, config, httpVars, renderVars>>

\* ------------------------------------------------------------- request gate
\* The requests the cache service is working on, and the admitted requests
\* whose handler has not left: the request is in the cache service, or back
\* from it and not answered yet.
Working(r) == pc[r] \notin {"idle", "done", "rejected"}
Holding(r) == pc[r] \notin {"idle", "rejected"} /\ response[r] = NoResponse

\* The handler was dropped: the client gets no response from it.
Gone == [status |-> 0, error |-> <<"timeout">>]

\* 429 Too Many Requests
TooManyRequests == [status |-> 429, error |-> <<"Too Many Requests">>]

\* The gate admits whoever asks.
AdmitsAlways(x) == TRUE

\* admit(ip): the insert into the wait-set succeeds, or rate limiting is off.
Admits(x) == ~config.rate_limiting \/ x \notin clients

\* A request for key k arrives from address x. The gate rejects it with 429,
\* or admits it: the address joins the wait-set and the handler calls the cache
\* service, which runs to its first await. MaxActive requests are admitted in
\* all; the addresses are numbered in the order they first appear.
Arrive(r, x, k) ==
    /\ pc[r] = "idle"
    /\ \A q \in Reqs : q < r => pc[q] # "idle"
    /\ \A y \in Ips : y < x => \E q \in Reqs : q < r /\ ip[q] = y
    /\ ip' = [ip EXCEPT ![r] = x]
    /\ IF Admits(x)
       THEN /\ Cardinality({q \in Reqs : pc[q] \notin {"idle", "rejected"}}) < MaxActive
            /\ Enter(r, k)
            /\ clients' = IF config.rate_limiting THEN clients \cup {x} ELSE clients
            /\ UNCHANGED <<response, asked, bpm>>
       ELSE /\ pc' = [pc EXCEPT ![r] = "rejected"]
            /\ response' = [response EXCEPT ![r] = TooManyRequests]
            /\ UNCHANGED <<key, gif, result, gcVars, cacheVars, config, renderVars, clients,
                           asked, bpm, hist>>

\* The timeout leaves the wait-set as it is.
TimeoutKeeps(r) ==
    /\ Working(r)
    /\ response[r] = NoResponse
    /\ response' = [response EXCEPT ![r] = Gone]
    /\ UNCHANGED <<pc, key, gif, result, gcVars, cacheVars, config, renderVars, clients, ip,
                   asked, bpm, hist>>

\* The gate-side timeout: the handler of an admitted request is dropped while
\* it awaits CacheServiceHandle::request_speed, and its address leaves the
\* wait-set. The task GifService::spawn started for the request goes on: only
\* its responder.send will find the receiver gone.
Timeout(r) ==
    /\ Working(r)
    /\ response[r] = NoResponse
    /\ response' = [response EXCEPT ![r] = Gone]
    /\ clients' = IF config.rate_limiting THEN clients \ {ip[r]} ELSE clients
    /\ UNCHANGED <<pc, key, gif, result, gcVars, cacheVars, config, renderVars, ip, asked, bpm,
                   hist>>

\* ------------------------------------------------------------- responses
\* The request handler answers: the bytes with 200, or Error::to_response; the
\* client leaves the wait-set of the request gate.
Respond(r) ==
    /\ pc[r] = "done"
    /\ response[r] = NoResponse
    /\ response' = [response EXCEPT ![r] = IF result[r].ok
                                           THEN [status |-> 200, error |-> << >>]
                                           ELSE ToResponse(result[r].err)]
    /\ clients' = IF config.rate_limiting THEN clients \ {ip[r]} ELSE clients
    /\ UNCHANGED <<pc, key, gif, result, gcVars, cacheVars, config, renderVars, ip, asked,
                   bpm, hist>>

\* The handler of a BPM quantizes it; a client that asks for the value it got
\* has it quantized again.
Quantize(r) ==
    /\ bpm[r] # << >>
    /\ Len(bpm[r]) <= MaxApply
    /\ bpm[r][Len(bpm[r])] # Infinity
    /\ bpm' = [bpm EXCEPT ![r] = Append(@, QuantizeBpm(@[Len(@)]))]
    /\ UNCHANGED <<pc, key, gif, result, gcVars, cacheVars, config, renderVars, clients, ip,
                   response, asked, hist>>

\* The first request asks for any whole BPM of MinBpm..MaxBpm.
InitBpm ==
    /\ Quiet(Config(TRUE, 2, 1, 2, FALSE), TwoSpeeds)
    /\ pc = [r \in Reqs |-> "idle"]
    /\ result = [r \in Reqs |-> Pending]
    /\ disk = ColdDisk
    /\ lru = << >>
    /\ now = 1
    /\ \E b \in MinBpm..MaxBpm : bpm = [r \in Reqs |-> IF r = 1 THEN <<FromInt(b)>> ELSE << >>]

\* The first MaxActive requests have returned errors, any at all.
InitErrors ==
    /\ Quiet(Config(TRUE, 2, 1, 2, FALSE), TwoSpeeds)
    /\ pc = [r \in Reqs |-> IF r <= MaxActive THEN "done" ELSE "idle"]
    /\ result \in [Reqs -> {Err(e) : e \in Errors(MaxWrap)} \cup {Pending}]
    /\ \A r \in Reqs : result[r] = Pending <=> r > MaxActive
    /\ disk = ColdDisk
    /\ lru = << >>
    /\ now = 1
    /\ bpm = [r \in Reqs |-> << >>]

\* One cache file at the limit, indexed, and rate limiting on.
InitGate ==
    Boot([f \in Files |-> IF f = 3 THEN File(1) ELSE NoFile], [f \in {3} |-> 1],
         Config(TRUE, 1, 0, 1, TRUE), TwoSpeeds, MaxTime)

\* ------------------------------------------------------------- specification
Steps ==
    \/ \E r \in Reqs : ReadFile(r)
    \/ \E r \in Reqs : GcEnumerate(r)
    \/ \E r \in Reqs : GcQuery(r)
    \/ \E r \in Reqs : GcWalk(r)
    \/ \E r \in Reqs : GcDelete(r)
    \/ \E i \in 1..Len(forgets) : ForgetRows(i)
    \/ HandleRequest
    \/ Dispatch
    \/ \E i \in 1..Len(jobs) : StartRender(i)
    \/ \E i \in 1..Len(jobs) : FinishRender(i)
    \/ \E i \in 1..Len(jobs) : SendCompleted(i)
    \/ HandleCompleteRender
    \/ \E r \in Reqs : AwaitRender(r)
    \/ \E r \in Reqs : WriteCreate(r)
    \/ \E r \in Reqs : WriteAll(r)
    \/ \E r \in Reqs : Touch(r)

Next == (\E r \in Reqs, k \in Keys : Request(r, k)) \/ Steps

Spec == Init /\ [][Next]_vars

\* The same, with requests that arrive after earlier ones have returned.
NextLate == Next \/ \E r \in Reqs, k \in Keys : LateRequest(r, k)

SpecLate == Init /\ [][NextLate]_vars

\* The service behind the request gate, with rate limiting on.
NextGate ==
    \/ \E r \in Reqs, x \in Ips : Arrive(r, x, 1)
    \/ \E r \in Reqs : Respond(r)
    \/ \E r \in Reqs : Timeout(r)
    \/ Steps

SpecGate == InitGate /\ [][NextGate]_vars

\* The same service, with callers of the render service that give up.
NextDrop == Next \/ \E r \in Reqs : DropReceiver(r)

SpecDrop == Init /\ [][NextDrop]_vars

\* A BPM, to be quantized and quantized again.
SpecBpm == InitBpm /\ [][\E r \in Reqs : Quantize(r)]_vars

\* Requests whose results are any error values, to be answered.
SpecErrors == InitErrors /\ [][\E r \in Reqs : Respond(r)]_vars

\* The service asked for any speed.
SpecSpeeds == InitSpeeds /\ [][Next]_vars

\* The service started on a warm cache, asked for a speed that is not cached.
NextGc == (\E r \in Reqs : Request(r, 1)) \/ Steps

SpecGc == InitGc /\ [][NextGc]_vars

\* The same requests on the directory with the row of a missing file.
SpecStale == InitStale /\ [][NextGc]_vars

\* The same, with the scheduling of the runtime: the coordinator, the dispatcher
\* and the render tasks are tokio tasks that run when they can, and every
\* encoder ends.
FairSpec ==
    /\ Spec
    /\ WF_vars(HandleRequest)
    /\ WF_vars(Dispatch)
    /\ WF_vars(\E i \in 1..Len(jobs) : StartRender(i))
    /\ WF_vars(\E i \in 1..Len(jobs) : FinishRender(i))
    /\ WF_vars(\E i \in 1..Len(jobs) : SendCompleted(i))
    /\ WF_vars(HandleCompleteRender)

\* ------------------------------------------------------------- properties
\* The encoder runs of key k that are dispatched, waiting for a permit or
\* executing.
InFlight(k) ==
    Count(renders, k)
    + Cardinality({i \in 1..Len(jobs) : jobs[i].speed = k /\ jobs[i].st \in {"acquire", "encoding"}})

\* Requests a and b got their outcome from the same render.
SameRender(a, b) == rx[a] # Pending /\ rx[b] # Pending /\ key[a] = key[b] /\ hist.job[a] = hist.job[b]

\* C1: in every reachable state, every speed key has at most one encoder run
\* in flight (dispatched, waiting for a permit, or executing).
C1_OneRunPerKey == \A k \in Keys : InFlight(k) <= 1

\* Two requests wait for the one run of their key.
C1_Witness == \E k \in Keys : InFlight(k) = 1 /\ Len(queues[k]) >= 2

\* The requests that arrive together.
Together == 1..MaxActive

\* C2, as claimed: when the requests that arrived together all asked for one
\* key on a cold cache and have all returned bytes, exactly one encoder was
\* spawned for the key and the bytes are identical.
C2_OneEncoderOverall ==
    (\A r \in Together : /\ pc[r] = "done" /\ result[r].ok
                         /\ key[r] = key[1] /\ hist.path[r] = "miss")
    => /\ hist.spawned[key[1]] = 1
       /\ \A r \in Together : result[r].gif = result[1].gif

\* C2, amended: an encoder is spawned for a key only after every earlier render
\* of the key was broadcast (one encoder per round of waiters, not one over
\* all), and the requests that got their bytes from one render return
\* identical bytes.
C2_OneEncoderPerRound ==
    /\ \A k \in Keys : hist.spawned[k] <= hist.bcasts[k] + 1
    /\ \A a, b \in Reqs :
          (SameRender(a, b) /\ pc[a] = "done" /\ pc[b] = "done" /\ result[a].ok /\ result[b].ok)
          => result[a].gif = result[b].gif

\* Two requests were served by one render, the only one of their key, and
\* have returned its bytes.
C2_Witness ==
    \E a, b \in Reqs :
        /\ a # b /\ SameRender(a, b) /\ hist.spawned[key[a]] = 1
        /\ pc[a] = "done" /\ pc[b] = "done" /\ result[a].ok /\ result[b].ok

\* C3: under fair scheduling, with encoders that end, every waiter enqueued
\* by render_speed eventually receives an outcome, and never more than one.
C3_EveryWaiterAnswered ==
    /\ \A r \in Reqs : (pc[r] = "wait") ~> (rx[r] # Pending)
    /\ [](\A r \in Reqs : hist.sends[r] <= 1)

\* A waiter has its one outcome and has not yet taken it.
C3_Witness == \E r \in Reqs : pc[r] = "wait" /\ rx[r] # Pending /\ hist.sends[r] = 1

\* C4: the positions a successful render delivers are 0..k-1 without
\* duplicates or gaps, and the waiter pushed i-th (from 0) receives i.
C4_Positions ==
    \A r \in Reqs : rx[r].ok =>
        /\ rx[r].pos = hist.rank[r]
        /\ rx[r].pos > 0 => \E q \in Reqs : SameRender(q, r) /\ rx[q].pos = rx[r].pos - 1
        /\ \A q \in Reqs : (q # r /\ SameRender(q, r)) => rx[q].pos # rx[r].pos

\* A render was broadcast to two waiters: the first pushed got 0, the second 1.
C4_Witness ==
    \E a, b \in Reqs :
        /\ rx[a].ok /\ SameRender(a, b)
        /\ hist.rank[a] = 0 /\ rx[a].pos = 0 /\ hist.rank[b] = 1 /\ rx[b].pos = 1

\* The waiters of r's render that called fs::write.
Writers(r) == {w \in hist.wrote : SameRender(w, r)}

\* C5: of the waiters of a successful render, the one with position 0 writes
\* the cache file and no other does.
C5_OneWriter ==
    /\ \A w \in hist.wrote : rx[w].ok /\ rx[w].pos = 0
    /\ \A r \in Reqs : rx[r].ok =>
          /\ Cardinality(Writers(r)) <= 1
          /\ (\A q \in Reqs : SameRender(q, r) => pc[q] = "done")
                => Cardinality(Writers(r)) = 1

\* Both waiters of a render have returned and one of them wrote the file.
C5_Witness ==
    \E a, b \in Reqs :
        /\ a # b /\ rx[a].ok /\ SameRender(a, b)
        /\ pc[a] = "done" /\ pc[b] = "done" /\ Writers(a) = {a}

\* The encoder subprocesses that are running.
Encoding == {i \in 1..Len(jobs) : jobs[i].st = "encoding"}

\* C6: at most max_jobs encoder subprocesses run at a time.
C6_MaxJobs == Cardinality(Encoding) <= MaxJobs

\* max_jobs encoders run and the render of another key waits for a permit.
C6_Witness ==
    /\ Cardinality(Encoding) = MaxJobs
    /\ \E i \in 1..Len(jobs) : jobs[i].st = "acquire" /\ BoundsError(Speed(jobs[i].speed)) = NoError

\* The bytes earlier requests for r's key had returned when r arrived (as long
\* as collect_garbage has not removed the file since), and those of them that
\* were read from the file, or written to it, with no write of the file since.
PriorBytes(r) == {e.gif : e \in hist.seen[r]}
FreshBytes(r) == {e.gif : e \in {x \in hist.seen[r] : x.fresh}}

C8_ReadsComplete ==
    \A r \in Reqs : (hist.path[r] = "hit" /\ pc[r] = "touch")
                    => gif[r] \in hist.produced[key[r]]

\* Request r is in the hands of the render service, or has its outcome.
Forwarded(r) ==
    \/ \E i \in 1..Len(requests) : requests[i].responder = r
    \/ r \in Range(queues[key[r]])
    \/ rx[r] # Pending

C10_NoLruError ==
    \A r \in Reqs : (pc[r] = "done" /\ ~result[r].ok)
                    => result[r].err[1] \in {"CannotReadGif", "RenderFailed", "CannotWriteGif"}

\* C10, amended: a failure or panic of the database task of the LRU update
\* never fails the request, which returns its bytes; a cache path that is not
\* valid UTF-8 and a clock before the epoch make the request return
\* InvalidUtf8 and ClockWentBackwards, and nothing else of that step does.
C10_DbErrorSwallowed ==
    /\ \A r \in hist.dbFailed : pc[r] = "done" /\ result[r] = Ok(gif[r], 0)
    /\ \A r \in Reqs : (pc[r] = "done" /\ ~result[r].ok) =>
          /\ result[r].err[1] \in {"CannotReadGif", "RenderFailed", "CannotWriteGif",
                                   "InvalidUtf8", "ClockWentBackwards"}
          /\ result[r].err = <<"InvalidUtf8">> => ~config.utf8

\* A request whose database task failed has returned its bytes.
C10_Witness == \E r \in hist.dbFailed : pc[r] = "done" /\ result[r].ok

\* The files a pass recorded for deletion, and their sizes together.
Recorded(r) == {hist.gcRec[r][i].file : i \in 1..Len(hist.gcRec[r])}
RECURSIVE RecordedLen(_, _)
RecordedLen(r, i) == IF i = 0 THEN 0 ELSE hist.gcRec[r][i].len + RecordedLen(r, i - 1)

\* The pass of r found the directory at or above limit and returned Ok(()).
Purged(r) == hist.gcEnd[r] = "ok" /\ hist.gcSize[r] >= Limit

\* C11, as claimed: when a GC pass has returned successfully, the files listed
\* in the LRU index take at most limit bytes (read in its favour: every delete
\* of the pass succeeded, no request wrote a file or a row during the pass,
\* and purge_limit is not above limit).
C11_IndexedWithinLimit ==
    \A r \in Reqs :
        (/\ hist.gcEnd[r] = "ok" /\ hist.gcDel[r] = Recorded(r)
         /\ r \notin hist.gcDirty /\ PurgeLimit <= Limit)
        => hist.gcListed[r] <= Limit

\* C11, amended: a GC pass that returns successfully either found the
\* directory below limit, or recorded oldest indexed files until its running
\* total was at most purge_limit or every existing file among the
\* purge_max_count oldest rows was recorded.  When the running total reached
\* purge_limit, every recorded file was deleted and no request wrote a file or
\* a row during the pass, the indexed files take at most purge_limit bytes.
C11_PurgedToLimitOrCount ==
    \A r \in Reqs : hist.gcEnd[r] = "ok" =>
        \/ hist.gcSize[r] < Limit /\ hist.gcListed[r] < Limit /\ hist.gcDel[r] = {}
        \/ /\ hist.gcSize[r] >= Limit
           /\ hist.gcTot[r] = hist.gcSize[r] - RecordedLen(r, Len(hist.gcRec[r]))
           /\ \/ hist.gcTot[r] <= PurgeLimit
              \/ Recorded(r) = Range(hist.gcList[r]) \cap hist.gcSeen[r]
           /\ (hist.gcTot[r] <= PurgeLimit /\ hist.gcDel[r] = Recorded(r)
                  /\ r \notin hist.gcDirty)
                 => hist.gcListed[r] <= PurgeLimit

\* A pass that ran undisturbed has deleted what it recorded and purged down
\* to purge_limit.
C11_Witness ==
    \E r \in Reqs :
        /\ Purged(r) /\ hist.gcDel[r] = Recorded(r) /\ hist.gcDel[r] # {}
        /\ r \notin hist.gcDirty
        /\ hist.gcTot[r] <= PurgeLimit /\ hist.gcListed[r] <= PurgeLimit

\* oldest_files of r's pass, restricted to the files of S.
Restricted(r, S) == SelectSeq(hist.gcList[r], LAMBDA f : f \in S)

\* D is the set of the first elements of the list L.
IsPrefixSet(D, L) == \E j \in 0..Len(L) : D = {L[i] : i \in 1..j}

\* C12, as claimed: when a GC pass has returned, the files it deleted are a
\* prefix of the LRU-ascending list of the pass, restricted to the files that
\* were on disk when the pass started.
C12_DeletedIsPrefix ==
    \A r \in Reqs : hist.gcEnd[r] = "ok"
                     => IsPrefixSet(hist.gcDel[r], Restricted(r, hist.gcAt[r]))

\* C12, amended: the files a GC pass records for deletion are, in order, a
\* prefix of its LRU-ascending list restricted to the files that are on disk
\* when it walks the list; the files it deletes are among the recorded ones.
C12_RecordedIsPrefix ==
    \A r \in Reqs :
        /\ \E j \in 0..Len(Restricted(r, hist.gcSeen[r])) :
              [i \in 1..Len(hist.gcRec[r]) |-> hist.gcRec[r][i].file]
                 = SubSeq(Restricted(r, hist.gcSeen[r]), 1, j)
        /\ hist.gcDel[r] \subseteq Recorded(r)

\* A pass has returned after deleting the two oldest files, and another after
\* skipping a file of its list that was gone when it walked.
C12_Witness ==
    /\ \E r \in Reqs : Purged(r) /\ Cardinality(hist.gcDel[r]) = 2
    /\ \E r \in Reqs : /\ Purged(r) /\ hist.gcRec[r] # << >>
                       /\ Range(hist.gcList[r]) \ hist.gcSeen[r] # {}

AllDeleted == UNION {hist.gcDel[r] : r \in Reqs}
PendingForget == UNION {Range(forgets[i]) : i \in 1..Len(forgets)}

\* C14, as claimed: a GC pass that found the directory at or above limit
\* deletes oldest files until the directory holds at most purge_limit bytes
\* (read in its favour: every delete succeeded and no request wrote a file or
\* a row during the pass).
C14_PurgesToPurgeLimit ==
    \A r \in Reqs :
        (/\ Purged(r) /\ hist.gcDel[r] = Recorded(r) /\ hist.gcDel[r] # {}
         /\ r \notin hist.gcDirty)
        => hist.gcLeft[r][1] <= PurgeLimit

\* A step changes the usage_time table only by the upsert of the row of the
\* request that returns, or by removing rows of files GC passes have deleted,
\* every other row keeping its time.
LruFrame ==
    lru' # lru =>
        \/ \E r \in Reqs :
              /\ pc[r] = "touch" /\ pc'[r] = "done"
              /\ DOMAIN lru' = DOMAIN lru \cup {key[r]}
              /\ \A f \in DOMAIN lru \ {key[r]} : lru'[f] = lru[f]
        \/ /\ DOMAIN lru' \subseteq DOMAIN lru
           /\ DOMAIN lru \ DOMAIN lru' \subseteq AllDeleted
           /\ \A f \in DOMAIN lru' : lru'[f] = lru[f]

\* C14, amended: a GC pass that found the directory at or above limit deletes
\* oldest-by-LRU files until its running total is at most purge_limit or the
\* purge_max_count oldest rows are used up; the rows of the files it deleted
\* are removed by a task the pass leaves behind, after it has returned; no
\* other row is removed and no time of a row is changed by the pass.
C14_PurgeFrame ==
    /\ [](\A r \in Reqs : Purged(r) =>
             /\ \/ Leq64(hist.gcTot[r], PurgeLimit)
                \/ Recorded(r) = Range(hist.gcList[r]) \cap hist.gcSeen[r]
             /\ hist.gcDel[r] \subseteq PendingForget \cup hist.forgot)
    /\ [][LruFrame]_vars

\* A pass has purged down to purge_limit, the rows of the files it deleted
\* are gone, and a row of another file is still there.
C14_Witness ==
    \E r \in Reqs :
        /\ Purged(r) /\ hist.gcDel[r] # {} /\ hist.gcDel[r] \subseteq hist.forgot
        /\ hist.gcLeft[r][1] <= PurgeLimit
        /\ hist.gcDel[r] \cap DOMAIN lru = {} /\ DOMAIN lru # {}

\* The requests that have returned an error.
Failed == {r \in Reqs : pc[r] = "done" /\ ~result[r].ok}

\* C15: an error a cache-service request returns because its render failed is
\* RenderFailed(inner) with inner the error of the render, not itself a
\* RenderFailed, and its HTTP status is that of inner: 400 if and only if
\* inner is SpeedTooFast or SpeedTooSlow, otherwise 500.
C15_RenderFailedStatus ==
    \A r \in Failed :
        /\ (rx[r] # Pending /\ ~rx[r].ok) => result[r].err = RenderFailed(rx[r].err)
        /\ result[r].err[1] = "RenderFailed" =>
              /\ Len(result[r].err) = 2
              /\ result[r].err[2] # "RenderFailed"
              /\ ToResponse(result[r].err).status = StatusCode(Tail(result[r].err))
              /\ ToResponse(result[r].err).status = 400
                    <=> result[r].err[2] \in {"SpeedTooFast", "SpeedTooSlow"}
              /\ ToResponse(result[r].err).status \in {400, 500}

\* One request has returned a render failure that answers 400, and another
\* one that answers 500.
C15_Witness ==
    /\ \E r \in Failed : /\ result[r].err = RenderFailed(<<"SpeedTooSlow">>)
                          /\ ToResponse(result[r].err).status = 400
    /\ \E r \in Failed : /\ result[r].err = RenderFailed(<<"EncoderExitCode">>)
                          /\ ToResponse(result[r].err).status = 500

\* The requests that were answered with an error.
AnsweredError == {r \in Failed : response[r] # NoResponse}

\* C16: the message of the response to RenderFailed(inner) is the message of
\* inner if and only if inner is a 400-class error; the message of every other
\* error is its own display text, which for a RenderFailed with a 500-class
\* inner begins with "Render failed: ".
C16_Message ==
    \A r \in AnsweredError :
        LET e == result[r].err
            m == response[r].error
        IN /\ e[1] = "RenderFailed" => (m = Display(Tail(e)) <=> StatusCode(Tail(e)) = 400)
           /\ e[1] # "RenderFailed" => m = Display(e)
           /\ (e[1] = "RenderFailed" /\ StatusCode(Tail(e)) # 400)
                 => m = Display(e) /\ m[1] = "Render failed: "

\* A render failure of class 400 was answered with the message of the inner
\* error, and one of class 500 with the text of the RenderFailed.
C16_Witness ==
    /\ \E r \in AnsweredError :
          /\ result[r].err = RenderFailed(<<"SpeedTooFast">>)
          /\ response[r].error = <<"Hat Kid got incarcerated for speeding on a highway.">>
    /\ \E r \in AnsweredError :
          /\ result[r].err = RenderFailed(<<"Encoder">>)
          /\ response[r].error = <<"Render failed: ", "GIF encoding process: {0}">>

\* floor(frame_count / speed) of key k: the largest m with m * speed <= frame_count.
Frames(k) ==
    CHOOSE m \in 0..(FrameCount * MaxDen) :
        /\ m * Speed(k)[1] <= FrameCount * Speed(k)[2]
        /\ (m + 1) * Speed(k)[1] > FrameCount * Speed(k)[2]

\* The render tasks of key k that are past their bounds checks.
Started(k) == {i \in 1..Len(jobs) : jobs[i].speed = k /\ jobs[i].st # "acquire"}

\* C17: with output_frames = floor(frame_count / speed), a render of a speed
\* with output_frames <= 1 ends with SpeedTooFast and one with output_frames >
\* frame_count ends with SpeedTooSlow, and no encoder subprocess is ever
\* spawned for such a speed; a render of any other speed goes on to spawn the
\* encoder: it is encoding, or ended with what the encoder run made of it.
C17_BoundsChecks ==
    \A k \in Keys :
        /\ Frames(k) <= 1 =>
              /\ hist.spawned[k] = 0
              /\ \A i \in Started(k) : jobs[i].st # "encoding" /\ jobs[i].res = Err(<<"SpeedTooFast">>)
        /\ Frames(k) > FrameCount =>
              /\ hist.spawned[k] = 0
              /\ \A i \in Started(k) : jobs[i].st # "encoding" /\ jobs[i].res = Err(<<"SpeedTooSlow">>)
        /\ (Frames(k) > 1 /\ Frames(k) <= FrameCount) =>
              \A i \in Started(k) :
                  \/ jobs[i].st = "encoding" /\ hist.spawned[k] > 0
                  \/ jobs[i].res \in EncoderResults /\ (jobs[i].res.ok => hist.spawned[k] > 0)

\* A render of a speed that is too slow has ended with SpeedTooSlow and no
\* encoder, while the render of a speed within the bounds is encoding.
C17_Witness ==
    /\ \E i \in 1..Len(jobs) :
          /\ Frames(jobs[i].speed) > FrameCount
          /\ jobs[i].res = Err(<<"SpeedTooSlow">>)
          /\ hist.spawned[jobs[i].speed] = 0
    /\ \E i \in 1..Len(jobs) :
          /\ Frames(jobs[i].speed) \in 2..FrameCount
          /\ jobs[i].st = "encoding"

\* C18, as claimed: quantization is idempotent: for every BPM whose frame
\* count floor(wave_count * fps * 60 / B) is at least 1, the quantization of
\* the quantized BPM is the quantized BPM.
C18_Idempotent ==
    \A r \in Reqs :
        (Len(bpm[r]) >= 3 /\ Floor(FDiv(Waves, bpm[r][1])) >= 1) => bpm[r][3] = bpm[r][2]

\* The requests that hold a render slot for the address x.
Holders(x) == {q \in Reqs : Holding(q) /\ ip[q] = x}

\* Request r arrives in this step.
Arrives(r) == pc[r] = "idle" /\ pc'[r] # "idle"

\* A request that arrives while a request from its address is in flight is
\* rejected with 429, and the step changes nothing in the services: no
\* cache-service request, no GC pass, no render, no file and no LRU row.
RejectsSecond ==
    \A r \in Reqs :
        (Arrives(r) /\ Holders(ip'[r]) # {}) =>
            /\ pc'[r] = "rejected"
            /\ response'[r].status = 429
            /\ UNCHANGED <<key, gif, result, gcVars, cacheVars, renderVars, clients, hist>>

\* A rejected request stays rejected: it never enters the cache service.
RejectedForGood == \A r \in Reqs : pc[r] = "rejected" => pc'[r] = "rejected" /\ key'[r] = key[r]

\* C19: with rate limiting enabled, a request from an address that arrives
\* while an earlier request from that address is in flight is rejected with
\* HTTP 429 and causes no cache-service request, no GC pass, no render and no
\* LRU update; in every state at most one request per address holds a render
\* slot.
C19_OnePerIp ==
    /\ [](\A x \in Ips : Cardinality(Holders(x)) <= 1)
    /\ [](\A r \in Reqs : pc[r] = "rejected" => response[r] = TooManyRequests /\ hist.path[r] = "none")
    /\ [][RejectsSecond /\ RejectedForGood]_vars

\* A request holds the slot of its address while its render is encoding, and
\* a second request from the address was rejected with 429.
C19_Witness ==
    \E p, r \in Reqs :
        /\ Holding(p) /\ pc[p] = "wait"
        /\ \E i \in 1..Len(jobs) : jobs[i].st = "encoding"
        /\ pc[r] = "rejected" /\ ip[r] = ip[p] /\ response[r].status = 429

\* The admitted requests that have left: answered, or timed out.
Left(r) == pc[r] \notin {"idle", "rejected"} /\ response[r] # NoResponse

\* A request that arrives when no request from its address is in flight is
\* admitted.
AdmitsNext == \A r \in Reqs : (Arrives(r) /\ Holders(ip'[r]) = {}) => pc'[r] # "rejected"

\* C20: the address of an admitted request leaves the wait-set on every exit
\* path of the request (success, an error raised after admission, timeout):
\* the wait-set holds exactly the addresses of the requests in flight, so a
\* new request from the address of a request that has left is admitted.
C20_Released ==
    /\ [](clients = {ip[q] : q \in {r \in Reqs : Holding(r)}})
    /\ [](\A r \in Reqs : (Left(r) /\ Holders(ip[r]) = {}) => ip[r] \notin clients)
    /\ [][AdmitsNext]_vars

\* A request has timed out, and a later request from the same address was
\* admitted and answered with an error; the wait-set is empty again.
C20_Witness ==
    \E q, r \in Reqs :
        /\ q < r /\ ip[q] = ip[r]
        /\ response[q] = Gone
        /\ pc[r] = "done" /\ ~result[r].ok /\ response[r].status = 500
        /\ clients = {}

\* The renders of key k that are pending: dispatched and not yet broadcast,
\* that is in the renders channel, in a render task, or in the completions
\* channel.
PendingRenders(k) ==
    Count(renders, k)
    + Cardinality({i \in 1..Len(jobs) : jobs[i].speed = k})
    + Cardinality({i \in 1..Len(completed) : completed[i].speed = k})

\* C21: the waiter map has an entry for key k (a waiter list that is not
\* empty) if and only if exactly one render of k is pending, dispatched and
\* not yet broadcast; never more than one render of a key is pending, so the
\* dispatch is sent with the first waiter in the entry and no waiter sits in
\* an entry without a pending render.
C21_EntryIffPending ==
    \A k \in Keys :
        /\ PendingRenders(k) <= 1
        /\ queues[k] # << >> <=> PendingRenders(k) = 1

\* Two waiters share the entry of a key whose one render is encoding, while
\* the other key has neither an entry nor a render.
C21_Witness ==
    \E k \in Keys, i \in 1..Len(jobs) :
        /\ Len(queues[k]) = 2
        /\ jobs[i].speed = k /\ jobs[i].st = "encoding"
        /\ PendingRenders(k) = 1
        /\ \E j \in Keys : queues[j] = << >> /\ PendingRenders(j) = 0

\* The coordinator handles the completed render at the head of the channel.
Broadcasts == completed # << >> /\ completed' = Tail(completed)

\* Every waiter in the list at the broadcast has the outcome in its channel
\* when the step is over, and the entry is gone by then.
BroadcastIsWhole ==
    Broadcasts =>
        LET c == Head(completed) IN
        /\ queues'[c.speed] = << >>
        /\ \A i \in 1..Len(queues[c.speed]) :
              LET r == queues[c.speed][i] IN
              /\ rx'[r] # Pending
              /\ rx'[r].ok = c.res.ok
              /\ c.res.ok => rx'[r].gif = c.res.gif
              /\ ~c.res.ok => rx'[r].err = c.res.err

\* A request handled when its key has no entry creates the entry and sends
\* the dispatch.
FreshRender ==
    (requests # << >> /\ requests' = Tail(requests) /\ queues[Head(requests).speed] = << >>) =>
        /\ queues'[Head(requests).speed] = <<Head(requests).responder>>
        /\ renders' = Append(renders, Head(requests).speed)

\* C22: broadcast and entry removal are one step with respect to request
\* handling: every waiter in the list at the broadcast receives the outcome
\* and the entry is removed in the same step; a request for the key handled
\* after the n-th broadcast of the key does not join that render: it creates
\* a new entry, dispatches a fresh render and is answered by broadcast n + 1.
C22_BroadcastAtomic ==
    /\ [](\A r \in Reqs : hist.job[r] # 0 => hist.job[r] = hist.after[r] + 1)
    /\ [](\A k \in Keys : \A i \in 1..Len(queues[k]) : hist.after[queues[k][i]] = hist.bcasts[k])
    /\ [][BroadcastIsWhole /\ FreshRender]_vars

\* A request was answered by the first render of its key, and a request
\* handled after that broadcast is the first waiter of a new entry whose
\* render is dispatched.
C22_Witness ==
    \E a, b \in Reqs :
        /\ key[a] = key[b]
        /\ hist.job[a] = 1
        /\ hist.after[b] = 1 /\ hist.rank[b] = 0
        /\ queues[key[b]] = <<b>>
        /\ PendingRenders(key[b]) = 1

\* C23: every permit a render acquired is back in the semaphore when the
\* render has ended, whatever its outcome (bytes, SpeedTooFast, SpeedTooSlow,
\* a failed launch or wait, a non-zero exit code): the available permits and
\* the renders that hold one, which are those whose encoder is running, add up
\* to max_jobs.
C23_PermitsReleased ==
    /\ permits >= 0
    /\ permits + Cardinality(Encoding) = MaxJobs
    /\ (\A i \in 1..Len(jobs) : jobs[i].st = "send") => permits = MaxJobs

\* A render has ended with a non-zero exit code and another with
\* SpeedTooSlow, and the semaphore has all its permits.
C23_Witness ==
    /\ \E i \in 1..Len(jobs) : jobs[i].st = "send" /\ jobs[i].res = Err(<<"EncoderExitCode">>)
    /\ \E i \in 1..Len(jobs) : jobs[i].st = "send" /\ jobs[i].res = Err(<<"SpeedTooSlow">>)
    /\ permits = MaxJobs

\* The render service has something to do, and a step of one of its tasks.
RenderWork == requests # << >> \/ renders # << >> \/ jobs # << >> \/ completed # << >>
RenderStep ==
    \/ HandleRequest
    \/ Dispatch
    \/ \E i \in 1..Len(jobs) : StartRender(i) \/ FinishRender(i) \/ SendCompleted(i)
    \/ HandleCompleteRender

NeverCancelled ==
    \A k \in Keys : PendingRenders(k)' < PendingRenders(k) => (Broadcasts /\ Head(completed).speed = k)

\* At the broadcast the entry is removed, a dropped receiver stays as it is,
\* and a waiter that listens gets the outcome with the position of its slot.
BroadcastSkipsDropped ==
    Broadcasts =>
        LET c == Head(completed) IN
        /\ queues'[c.speed] = << >>
        /\ \A i \in 1..Len(queues[c.speed]) :
              LET r == queues[c.speed][i] IN
              IF rx[r] = Closed THEN rx'[r] = Closed
              ELSE /\ rx'[r].ok = c.res.ok
                   /\ c.res.ok => rx'[r].gif = c.res.gif /\ rx'[r].pos = i - 1
                   /\ ~c.res.ok => rx'[r].err = c.res.err

\* C25: a render is not cancelled when its waiters drop their receivers: it
\* stays pending until its broadcast, while its entry stays in the map; at the
\* broadcast the entry is removed, the sends to dropped receivers fail and are
\* ignored, and every waiter that still listens receives the outcome with the
\* position of its slot in the list, the slots of dropped waiters counted.
C25_DropsIgnored ==
    /\ [](\A k \in Keys : queues[k] # << >> <=> PendingRenders(k) = 1)
    /\ [][NeverCancelled /\ BroadcastSkipsDropped]_vars

\* The first waiter of a render dropped its receiver, and the second waiter
\* got the bytes with position 1.
C25_Witness ==
    \E a, b \in Reqs :
        /\ key[a] = key[b] /\ hist.after[a] = hist.after[b]
        /\ hist.rank[a] = 0 /\ hist.rank[b] = 1
        /\ pc[a] = "dropped" /\ rx[a] = Closed
        /\ rx[b].ok /\ rx[b].pos = 1
        /\ queues[key[a]] = << >>

\* Request r got the error of a failed render.
GotError(r) == rx[r] \notin {Pending, Closed} /\ ~rx[r].ok

\* The broadcast of a failed render removes the entry and gives every waiter
\* the error of the render.
FailureBroadcast ==
    (Broadcasts /\ ~Head(completed).res.ok) =>
        /\ queues'[Head(completed).speed] = << >>
        /\ \A r \in Range(queues[Head(completed).speed]) : rx'[r] = Head(completed).res

\* C26: when a render fails, every waiter of that render receives the same
\* error value and the entry is removed with the broadcast; the failure is not
\* remembered: a request for the key handled after the failed render is the
\* first waiter of a new entry, for which a new render is dispatched and
\* which a later broadcast answers.
C26_FailureNotRemembered ==
    /\ [](\A a, b \in Reqs : (SameRender(a, b) /\ GotError(a)) => rx[b] = rx[a])
    /\ [](\A a, b \in Reqs :
            (GotError(a) /\ key[b] = key[a] /\ hist.after[b] >= hist.job[a]) =>
                /\ b \in Range(queues[key[b]]) => PendingRenders(key[b]) = 1
                /\ hist.job[b] # 0 => hist.job[b] > hist.job[a])
    /\ [][FailureBroadcast]_vars

\* A render ended with a non-zero exit code and its waiter has the error; a
\* request for the key handled afterwards waits alone in a new entry while the
\* encoder of its own render runs.
C26_Witness ==
    \E a, b \in Reqs :
        /\ rx[a] = Err(<<"EncoderExitCode">>) /\ hist.job[a] = 1
        /\ key[b] = key[a] /\ hist.after[b] = 1
        /\ queues[key[b]] = <<b>>
        /\ \E i \in 1..Len(jobs) : jobs[i].speed = key[b] /\ jobs[i].st = "encoding"
        /\ hist.spawned[key[b]] = 2

\* The stages of handle_request_inner a request is in while collect_garbage runs.
GcStages == {"gc", "gc_query", "gc_walk", "gc_delete"}

\* Request r has run collect_garbage, or is running it.
Collected(r) ==
    \/ pc[r] \in GcStages
    \/ hist.gcAt[r] # {} \/ hist.gcEnd[r] # "none" \/ r \in hist.gcFailed
    \/ gcTotal[r] # 0 \/ gcOldest[r] # << >> \/ gcRemove[r] # << >> \/ gcRemoved[r] # << >>

\* The requests for key k that found no file and were sent to the render service.
MissesSent(k) == {r \in Reqs : key[r] = k /\ hist.path[r] = "miss" /\ Forwarded(r)}

\* A request that found its file is reading it, updating the LRU or returned;
\* it never ran collect_garbage, never reached the render service and wrote no
\* file, and with CannotReadGif it has returned.
HitPathOnly ==
    \A r \in Reqs : hist.path[r] = "hit" =>
        /\ pc[r] \in {"read", "touch", "done"}
        /\ ~Collected(r)
        /\ ~Forwarded(r) /\ hist.rank[r] = 0 /\ hist.job[r] = 0
        /\ r \notin hist.wrote
        /\ result[r] = Err(<<"CannotReadGif">>) => pc[r] = "done" /\ r \notin hist.fresh

\* collect_garbage and the render service are reached by misses only, every
\* encoder is spawned for a key a miss was forwarded for, and a forwarded
\* request has left collect_garbage behind.
MissOnly ==
    /\ \A r \in Reqs : Collected(r) \/ Forwarded(r) => hist.path[r] = "miss"
    /\ \A k \in Keys : hist.spawned[k] <= Cardinality(MissesSent(k))
    /\ \A r \in Reqs : Forwarded(r) =>
           /\ pc[r] \in {"wait", "write", "write_all", "touch", "done"}
           /\ gcTotal[r] = 0 /\ gcOldest[r] = << >> /\ gcRemove[r] = << >>
           /\ gcRemoved[r] = << >>

\* The read of a hit that fails ends the request with CannotReadGif in the
\* step that leaves the LRU table and the clock as they are, and a request
\* that has returned takes no further step.
FailedReadReturns ==
    \A r \in Reqs :
        /\ hist.path[r] = "hit" /\ pc[r] = "read" /\ pc'[r] = "done"
               => /\ result'[r] = Err(<<"CannotReadGif">>)
                  /\ lru' = lru /\ now' = now /\ disk' = disk
        /\ result[r] # result'[r] /\ result'[r] = Err(<<"CannotReadGif">>)
               => hist.path[r] = "hit" /\ pc[r] = "read" /\ pc'[r] = "done"
        /\ pc[r] = "done" => pc'[r] = "done" /\ result'[r] = result[r]

\* C27: a request that finds its cache file is served on the hit path only: it
\* runs no GC pass, sends nothing to the render service and no encoder is
\* spawned for it; if its read fails it returns CannotReadGif without an LRU
\* update. GC and rendering happen on a miss only, and the GC pass has ended
\* when the request is forwarded to the render service.
C27_HitPathOnly == [](HitPathOnly /\ MissOnly) /\ [][FailedReadReturns]_vars

\* A hit whose file the GC pass of a miss deleted before the read has returned
\* CannotReadGif; the miss has been forwarded after its pass and the encoder of
\* its render runs.
C27_Witness ==
    \E a, c \in Reqs :
        /\ hist.path[a] = "hit" /\ pc[a] = "done" /\ result[a] = Err(<<"CannotReadGif">>)
        /\ hist.path[c] = "miss" /\ hist.gcEnd[c] = "ok" /\ pc[c] = "wait"
        /\ \E i \in 1..Len(jobs) : jobs[i].speed = key[c] /\ jobs[i].st = "encoding"

\* A step of tokio::fs::write that creates the file finds no file of that name.
WritesNewFile ==
    \A r \in Reqs : pc[r] = "write" /\ pc'[r] = "write_all" => ~disk[key[r]].present

\* C28, as claimed: every write of a cache file targets a filename that does
\* not exist at the moment of the write, so no existing cache file is
\* overwritten or truncated, whatever the interleaving of the requests.
C28_AppendOnly == [][WritesNewFile]_vars

\* The errors of a request's own LRU update.
LruErrors == {<<"InvalidUtf8">>, <<"ClockWentBackwards">>, <<"CacheDb">>}

\* The position-0 waiters whose tokio::fs::write failed: they called it and
\* returned an error that is not one of the LRU update that follows it.
WriteFailed ==
    {w \in Reqs : /\ rx[w].ok /\ rx[w].pos = 0 /\ w \in hist.wrote
                  /\ pc[w] = "done" /\ ~result[w].ok /\ result[w].err \notin LruErrors}

\* The other waiters of w's render.
CoWaiters(w) == {b \in Reqs \ {w} : SameRender(w, b)}

\* No request but w called tokio::fs::write for w's key.
OnlyWriter(w) == \A q \in hist.wrote : key[q] = key[w] => q = w

\* C29, as claimed: when the disk write of the position-0 waiter fails, that
\* waiter returns CannotWriteGif, every other waiter of the render that has
\* returned (its own LRU update not failing) returned the rendered bytes, and
\* the render leaves no cache file for the key.
C29_WriteFailure ==
    \A w \in WriteFailed :
        /\ result[w] = Err(<<"CannotWriteGif">>)
        /\ \A b \in CoWaiters(w) :
               pc[b] = "done" /\ result[b] \notin {Err(e) : e \in LruErrors}
                   => result[b] = Ok(rx[w].gif, 0)
        /\ OnlyWriter(w) => ~disk[key[w]].present

\* to_remove of r's pass, the files in the order the loop recorded them.
RecordedFiles(r) == [i \in 1..Len(hist.gcRec[r]) |-> hist.gcRec[r][i].file]

\* s is what is left of the list L from some position on.
IsSuffix(s, L) == \E j \in 0..Len(L) : s = SubSeq(L, j + 1, Len(L))

\* While the pass of r deletes, the files still to attempt are the rest of
\* to_remove, none of them skipped, and removed holds the files it deleted.
DeletesGoOn ==
    \A r \in Reqs : pc[r] = "gc_delete" =>
        /\ gcRemove[r] # << >> /\ IsSuffix(gcRemove[r], RecordedFiles(r))
        /\ Range(gcRemoved[r]) = hist.gcDel[r]
        /\ hist.gcDel[r] \cap Range(gcRemove[r]) = {}

\* The rows a deletion task removes, or is about to, are rows of files some
\* pass deleted.
RowsOfDeleted ==
    LET deleted == UNION {hist.gcDel[r] : r \in Reqs}
    IN /\ hist.forgot \subseteq deleted
       /\ \A i \in 1..Len(forgets) : Range(forgets[i]) \subseteq deleted

\* An attempt to delete, failed or not, is followed by the attempt on the next
\* recorded file; after the last one the pass returns Ok(()): the request is
\* forwarded to the render service, and the rows handed to the deletion task
\* are those of the files the pass deleted.
DeleteStep ==
    \A r \in Reqs : pc[r] = "gc_delete" /\ gcRemove'[r] # gcRemove[r] =>
        IF Len(gcRemove[r]) > 1
        THEN /\ pc'[r] = "gc_delete" /\ gcRemove'[r] = Tail(gcRemove[r])
             /\ forgets' = forgets
             /\ disk' = disk => gcRemoved'[r] = gcRemoved[r]
        ELSE /\ pc'[r] = "wait" /\ result'[r] = Pending
             /\ hist'.gcEnd[r] = "ok" /\ r \notin hist'.gcFailed
             /\ \/ hist'.gcDel[r] = {} /\ forgets' = forgets
                \/ /\ Len(forgets') = Len(forgets) + 1
                   /\ Range(forgets'[Len(forgets')]) = hist'.gcDel[r]
                   /\ hist'.gcDel[r] # {}

\* C30: a failed deletion does not abort the GC pass: the pass goes on to
\* attempt every later recorded file, the LRU row of a file whose deletion
\* failed is not deleted by the pass, and the pass returns without error.
C30_DeleteFailureGoesOn == [](DeletesGoOn /\ RowsOfDeleted) /\ [][DeleteStep]_vars

\* A pass recorded two files; the deletion of the first failed and the file and
\* its row are still there, the second was deleted and its row removed, and
\* the pass returned: its request waits for the render.
C30_Witness ==
    \E r \in Reqs :
        /\ hist.gcEnd[r] = "ok" /\ r \notin hist.gcFailed /\ pc[r] = "wait"
        /\ Len(hist.gcRec[r]) >= 2
        /\ LET first == hist.gcRec[r][1].file
               second == hist.gcRec[r][2].file
           IN /\ first \notin hist.gcDel[r] /\ disk[first].present
              /\ first \in DOMAIN lru
              /\ second \in hist.gcDel[r] /\ ~disk[second].present
              /\ second \in hist.forgot /\ second \notin DOMAIN lru

\* The pass of r is a purging one that returned, no other pass is running and
\* no task that deletes rows is still to run.
Settled(r) == Purged(r) /\ forgets = << >> /\ \A q \in Reqs : pc[q] \notin GcStages

\* The rows the pass of r fetched whose file was missing when it walked them.
FetchedStale(r) == Range(hist.gcList[r]) \ hist.gcSeen[r]

\* Nobody has asked for the file f, so no request wrote it or its row.
Untouched(f) == \A q \in Reqs : pc[q] # "idle" => key[q] # f

\* C31, as claimed: a purging GC pass removes the rows it fetched whose file
\* is missing from disk (seen once every pass and row deletion has ended, for
\* files no request has touched), and it records at least one file for deletion
\* whenever a file that had a row at its query was on disk at its walk.
C31_StaleRowsReconciled ==
    \A r \in Reqs :
        /\ Settled(r) => \A f \in FetchedStale(r) : Untouched(f) => f \notin DOMAIN lru
        /\ Purged(r) /\ hist.gcRows[r] \cap hist.gcSeen[r] # {} => hist.gcRec[r] # << >>

\* What the pass of r fetched are at most purge_max_count rows of the table
\* (all of them when there are fewer), what it recorded and deleted is among
\* them, and a file without a row at the query is not deleted by the pass.
DeletesFetchedOnly ==
    \A r \in Reqs :
        /\ Len(hist.gcList[r]) <= PurgeMaxCount
        /\ Range(hist.gcList[r]) \subseteq hist.gcRows[r]
        /\ hist.gcList[r] # << >> =>
               Len(hist.gcList[r]) = Min(PurgeMaxCount, Cardinality(hist.gcRows[r]))
        /\ Recorded(r) \subseteq Range(hist.gcList[r])
        /\ hist.gcDel[r] \subseteq Recorded(r)
        /\ hist.gcDel[r] \cap (Files \ hist.gcRows[r]) = {}
        /\ Cardinality(hist.gcDel[r]) <= PurgeMaxCount

\* A file leaves the cache directory only in the deletion step of a pass that
\* fetched its row.
DeletedWasFetched ==
    \A f \in Files : disk[f].present /\ ~disk'[f].present =>
        \E r \in Reqs : /\ pc[r] = "gc_delete" /\ f = Head(gcRemove[r])
                         /\ f \in Range(hist.gcList[r])
                         /\ hist'.gcDel[r] = hist.gcDel[r] \cup {f}

\* A file has a row at the moment it leaves the cache directory.
DeletedHasRow == \A f \in Files : disk[f].present /\ ~disk'[f].present => f \in DOMAIN lru

\* C32, as claimed: a GC pass deletes only files that have a row among the
\* purge_max_count oldest rows, a cache file with no row is never deleted by
\* GC, and a pass deletes at most purge_max_count files.
C32_DeletesIndexedOnly ==
    []DeletesFetchedOnly /\ [][DeletedWasFetched /\ DeletedHasRow]_vars

\* C32, amended: a GC pass deletes only files whose row was among the
\* purge_max_count oldest rows when the pass queried the table, so a file
\* without a row at that query is not deleted by the pass, and a pass deletes
\* at most purge_max_count files.
C32_DeletesFetchedOnly == []DeletesFetchedOnly /\ [][DeletedWasFetched]_vars

\* A pass is about to delete a file it fetched the row of, written again since
\* by a request that has not touched it yet, after the row was deleted on
\* behalf of the pass that deleted the file the first time.
C32_Witness ==
    \E r, q \in Reqs :
        /\ pc[r] = "gc_delete" /\ Head(gcRemove[r]) \in hist.gcRows[r]
        /\ disk[Head(gcRemove[r])].present /\ Head(gcRemove[r]) \notin DOMAIN lru
        /\ Head(gcRemove[r]) \in hist.gcDel[q] \cap hist.forgot
        /\ pc[q] = "touch" /\ key[q] = Head(gcRemove[r]) /\ q \in hist.wrote

\* C33, as claimed: a request that found its cache file returns the GIF bytes
\* also when a concurrent GC pass deletes the file between the existence check
\* and the read (the errors of its own LRU update apart).
C33_ToleratesGc ==
    \A r \in Reqs :
        hist.path[r] = "hit" /\ pc[r] = "done" /\ result[r].err \notin LruErrors
            => result[r].ok

\* A flag without a placeholder.
PlainFlag(flag) == ~Contains(flag, "{frame_indices}") /\ ~Contains(flag, "{fps}")

\* floor(i * speed) + 1 for the speed of key k.
SelectedFrame(k, i) == (i * Speed(k)[1]) \div Speed(k)[2] + 1

\* The arguments claimed for the flags: floor(frame_count / speed) arguments
\* for a {frame_indices} flag, the flag itself for a plain one, and x for any
\* other flag.
RECURSIVE ClaimedArgs(_, _, _)
ClaimedArgs(flags, k, x) ==
    IF flags = << >> THEN << >>
    ELSE (IF Contains(Head(flags), "{frame_indices}")
          THEN [i \in 1..Frames(k) |->
                   [j \in 1..Len(Head(flags)) |->
                       IF Head(flags)[j] = "{frame_indices}"
                       THEN ToString(SelectedFrame(k, i - 1)) ELSE Head(flags)[j]]]
          ELSE IF PlainFlag(Head(flags)) THEN <<Head(flags)>>
          ELSE x)
         \o ClaimedArgs(Tail(flags), k, x)

\* The stretches of the sequence a.
Pieces(a) == {SubSeq(a, i, j) : i \in 1..(Len(a) + 1), j \in 0..Len(a)}

C35_NoUnderflow ==
    \A r \in Reqs :
        /\ gcTotal[r] >= 0 /\ hist.gcTot[r] >= 0 /\ hist.gcEnd[r] # "panic"
        /\ Recorded(r) \subseteq hist.gcAt[r]

\* The file f is on disk as a request that has returned its bytes read or
\* wrote it: it has not been deleted or written since, and the request has
\* made its LRU update.
Retouched(f) ==
    /\ disk[f].present
    /\ \E q \in hist.fresh : key[q] = f /\ pc[q] = "done" /\ result[q].ok

\* C36, as claimed: the removal of LRU rows by GC never strips the row of a
\* file that is on disk: a file deleted by a pass and rendered, written and
\* touched again before the row deletion of the pass runs keeps its row.
C36_RowSurvives ==
    [][\A f \in DOMAIN lru : Retouched(f) => f \in DOMAIN lru']_vars

\* Request r returns in this step.
Returns(r) == pc[r] # "done" /\ pc'[r] = "done"

\* The table is as it was but for the row of file f, which is there.
OnlyRowChanged(f) ==
    /\ DOMAIN lru' = DOMAIN lru \cup {f}
    /\ \A g \in DOMAIN lru \ {f} : lru'[g] = lru[g]

\* A request that returns an error leaves the table as it is; rows appear or
\* change only in the step in which a request returns its bytes; a request
\* whose render failed called no fs::write.
ErrorsTouchNothing ==
    /\ \A r \in Reqs : Returns(r) /\ ~result'[r].ok => lru' = lru
    /\ lru' # lru =>
          \/ \E r \in Reqs : Returns(r) /\ result'[r].ok
          \/ DOMAIN lru' \subseteq DOMAIN lru /\ \A g \in DOMAIN lru' : lru'[g] = lru[g]
    /\ \A r \in Reqs : ~rx[r].ok => r \notin hist.wrote

\* C37, as claimed: a request that ends in an error upserts no LRU row, a
\* request whose render failed writes no cache file, and every request that
\* returns bytes upserts exactly one row, that of its own cache file, leaving
\* the other rows unchanged.
C37_OneRowPerSuccess ==
    [][/\ ErrorsTouchNothing
       /\ \A r \in Reqs : Returns(r) /\ result'[r].ok =>
              OnlyRowChanged(key[r]) /\ lru'[key[r]] = now']_vars

\* C37, amended: the same, but a request that returns bytes has run one
\* upsert, of the row of its own cache file: it changes that row alone, or,
\* when the statement fails or its task panics, no row at all.
C37_OneUpsertPerSuccess ==
    [][/\ ErrorsTouchNothing
       /\ \A r \in Reqs : Returns(r) /\ result'[r].ok =>
              \/ OnlyRowChanged(key[r]) /\ lru'[key[r]] = now'
              \/ lru' = lru /\ r \in hist'.dbFailed]_vars

\* A request has returned its bytes and the row of its file is there; another
\* has returned the bytes of another file without a row, its upsert having
\* failed.
C37_Witness ==
    \E a, b \in Reqs :
        /\ pc[a] = "done" /\ result[a].ok /\ a \notin hist.dbFailed
        /\ key[a] \in DOMAIN lru
        /\ pc[b] = "done" /\ result[b].ok /\ b \in hist.dbFailed
        /\ key[b] \notin DOMAIN lru /\ disk[key[b]].present

\* The number of the decimal text t.
Number(t) == CHOOSE n \in 0..(MaxFrames * MaxNum + MaxNum) : ToString(n) = t

\* The frame indices among the arguments a: the numbers put in the place of
\* the token of the {frame_indices} flag, in the order of the arguments.
FrameIndices(a) ==
    LET frames == SelectSeq(a, LAMBDA arg : Len(arg) = 3 /\ arg[1] = "frames/")
    IN [i \in 1..Len(frames) |-> Number(frames[i][2])]

\* C38: for every speed that passes the bounds checks, every frame index
\* handed to the encoder lies in 1..frame_count, the first index is 1, and the
\* indices are non-decreasing.
C38_IndicesInRange ==
    \A i \in 1..Len(jobs) : jobs[i].st = "encoding" =>
        LET x == FrameIndices(jobs[i].args)
        IN /\ x # << >> /\ x[1] = 1
           /\ \A j \in 1..Len(x) : x[j] \in 1..FrameCount
           /\ \A j \in 1..(Len(x) - 1) : x[j] <= x[j + 1]

\* The encoder of a render at speed 2 of a 4-frame animation runs with the
\* frames 1 and 3, and that of a render at speed 1 with the frames 1 to 4,
\* the last frame of the animation among them.
C38_Witness ==
    /\ FrameCount = 4
    /\ \E i \in 1..Len(jobs) :
          /\ jobs[i].st \in {"encoding", "send"} /\ Speed(jobs[i].speed) = <<2, 1>>
          /\ FrameIndices(jobs[i].args) = <<1, 3>>
    /\ \E i \in 1..Len(jobs) :
          /\ jobs[i].st = "encoding" /\ Speed(jobs[i].speed) \in {<<1, 1>>, <<2, 2>>}
          /\ FrameIndices(jobs[i].args) = <<1, 2, 3, 4>>

====
